---- MODULE Spec2Model ----
(***************************************************************************)
(* Session client of the BIST CLI (cli-client/bist_cli): the retry         *)
(* decorator, the APIClient session (tokens, headers, login, refresh,      *)
(* logout), the token store of utils.py (keyring with file fallback), the  *)
(* AuthenticationManager / MainMenu operations that drive them (platform   *)
(* login, broker login with OTP, status check, the gate of the broker      *)
(* menu), the BrokerManager stream views (their polling loops and the      *)
(* tables they draw), view_positions, and the Watchlist manager with its   *)
(* watchlists.json.                                                        *)
(*                                                                         *)
(* The program is single-threaded: every operation runs to completion, so  *)
(* each action is one whole call of a public operation; only the polling   *)
(* loops, which run until interrupted, are taken step by step.  What the   *)
(* environment decides (HTTP responses, keyring and file-system faults) is *)
(* an input of the action, drawn with \E.                                  *)
(***************************************************************************)
EXTENDS Integers, Sequences, FiniteSets, TLC

\* Python's None (absent token, absent status code, absent user).
None == 0

\* Number of distinct token values the server may issue.
NumTokens == 2
Tokens == 1..NumTokens

\* Names under which clear_tokens deletes keyring entries.
TokenNames == {"access_token", "refresh_token", "algolab_token"}

\* The two names the session stores and loads.
SessionTokenNames == {"access_token", "refresh_token"}

\* Arguments of the decorator as applied to get/post/put/delete.
max_retries == 3
retry_on_status == {500, 502, 503, 504}
\* backoff = 1.5, kept exact as the fraction BackoffNum / BackoffDen.
BackoffNum == 3
BackoffDen == 2

VARIABLES
    access_token,           \* APIClient._access_token
    refresh_token,          \* APIClient._refresh_token
    token_expiry,           \* APIClient._token_expiry (None or set)
    current_user,           \* AuthenticationManager.current_user
    algolab_authenticated,  \* AuthenticationManager.algolab_authenticated
    use_keyring,            \* Settings.use_keyring
    keyring,                \* the keyring entries of service "bist-cli"
    token_file,             \* ~/.bist-cli/tokens.json
    pc,                     \* "idle" between operations, "done" when one has just ended
    wire,                   \* the request the operation that just ended put on the wire
    ret,                    \* what the retry wrapper did in that operation
    inp,                    \* the server's answers when the wrapper is run on its own
    last,                   \* the operation that just ended and how it ended
    result,                 \* what that operation returned and the calls it made
    poll,                   \* the polling loop of a stream view, while one runs
    watchlists,             \* Watchlist.watchlists
    config_file             \* ~/.bist-cli/watchlists.json

vars == <<access_token, refresh_token, token_expiry, current_user,
          algolab_authenticated, use_keyring, keyring, token_file,
          pc, wire, ret, inp, last, result, poll, watchlists, config_file>>

-----------------------------------------------------------------------------
(* HTTP responses                                                          *)

NoBody == [accessToken |-> None, refreshToken |-> None, user |-> None,
           authenticated |-> "missing"]

\* A response with a status line; valid_json tells whether its body parses.
HttpResponse(status, valid, body) ==
    [kind |-> "http", status |-> status, valid_json |-> valid, body |-> body]

\* The HTTP layer raising instead of answering (connection error, timeout).
NetError == [kind |-> "neterr", status |-> None, valid_json |-> FALSE, body |-> NoBody]

\* A 2xx response whose body is not JSON.
BadJson == HttpResponse(200, FALSE, NoBody)

ErrStatuses == {400, 401, 429, 500, 501, 502, 503, 504}

\* Every outcome of one underlying call, for the given 2xx bodies.
AllResponses(bodies) ==
    {HttpResponse(200, TRUE, b) : b \in bodies}
      \cup {HttpResponse(200, FALSE, NoBody)}
      \cup {HttpResponse(s, TRUE, NoBody) : s \in ErrStatuses}
      \cup {NetError}

\* One outcome of each kind: success, client error, server error,
\* unparsable body, transport failure.
FewResponses(bodies) ==
    {HttpResponse(200, TRUE, b) : b \in bodies}
      \cup {HttpResponse(200, FALSE, NoBody), HttpResponse(401, TRUE, NoBody),
            HttpResponse(503, TRUE, NoBody), NetError}


-----------------------------------------------------------------------------
(* Exceptions and results                                                  *)

\* attempt identifies the exception object: the attempt that raised it.
APIError(status, attempt) == [type |-> "APIError", status |-> status, attempt |-> attempt]
OtherException(attempt) == [type |-> "Exception", status |-> None, attempt |-> attempt]
NoException == [type |-> "none", status |-> None, attempt |-> None]

Return(value) == [kind |-> "return", value |-> value, exc |-> NoException]
Raise(exc) == [kind |-> "raise", value |-> NoBody, exc |-> exc]

HandleResponseNoJsonCatch(r, attempt) ==
    IF r.status >= 200 /\ r.status < 300
    THEN IF r.valid_json
         THEN Return(r.body)
         ELSE Raise(OtherException(attempt))
    ELSE Raise(APIError(r.status, attempt))

\* APIClient._handle_response
HandleResponse(r, attempt) ==
    IF r.status >= 200 /\ r.status < 300
    THEN IF r.valid_json
         THEN Return(r.body)
         ELSE Raise(APIError(None, attempt))
    ELSE Raise(APIError(r.status, attempt))

\* Bodies of non-2xx responses, as far as _handle_response tells them apart:
\* a JSON object (with or without the keys "message" and "error"), a JSON
\* array, a JSON number, or text that is not JSON, possibly empty.
ErrorBodies ==
    {b \in [json : {"object", "array", "number", "invalid"},
            has_message : BOOLEAN, has_error : BOOLEAN,
            text : {"", "raw body"}] :
       /\ (b.json # "object" => ~b.has_message /\ ~b.has_error)
       /\ (b.json # "invalid" => b.text # "")}

ErrorResponses ==
    {HttpResponse(s, b.json # "invalid", b) : s \in ErrStatuses, b \in ErrorBodies}

\* f"HTTP {e.response.status_code}"
GenericMessage(status) == "HTTP " \o ToString(status)

\* e.response.json() raises on text that is not JSON, and the test
\* `"message" in error_data` raises TypeError on a number.
InspectionRaises(b) == b.json \in {"invalid", "number"}

ErrorMessageRawBodyFallback(r) ==
    IF r.body.has_message THEN "the message"
    ELSE IF r.body.has_error THEN "the error"
    ELSE IF r.body.text # "" THEN r.body.text
    ELSE GenericMessage(r.status)

\* The message _handle_response gives the APIError of a non-2xx response.
ErrorMessage(r) ==
    IF InspectionRaises(r.body)
    THEN IF r.body.text # "" THEN r.body.text ELSE GenericMessage(r.status)
    ELSE IF r.body.has_message THEN "the message"
    ELSE IF r.body.has_error THEN "the error"
    ELSE GenericMessage(r.status)

\* APIClient._get_headers: the bearer token of the Authorization header,
\* None when the header is not set.
GetHeaders(authenticated, token) ==
    IF authenticated /\ token # None THEN token ELSE None

\* The body of get/post/put/delete: send, then _handle_response.
Func(r, attempt) ==
    IF r.kind = "neterr" THEN Raise(OtherException(attempt)) ELSE HandleResponse(r, attempt)

-----------------------------------------------------------------------------
(* retry_on_failure                                                        *)

\* wait_time = backoff ** attempt, as the fraction <<numerator, denominator>>
RECURSIVE Pow(_, _)
Pow(b, n) == IF n = 0 THEN 1 ELSE b * Pow(b, n - 1)

wait_timeOfNextAttempt(attempt) ==
    <<Pow(BackoffNum, attempt + 1), Pow(BackoffDen, attempt + 1)>>

\* backoff ** attempt, as a fraction
wait_time(attempt) == <<Pow(BackoffNum, attempt), Pow(BackoffDen, attempt)>>

IsAnyException(exc) == TRUE

\* "except APIError as e"
IsAPIError(exc) == exc.type = "APIError"

IsClientErrorAll4xx(status) == status # None /\ 400 <= status /\ status < 500

\* "if e.status_code and 400 <= e.status_code < 500 and e.status_code != 429"
IsClientError(status) ==
    status # None /\ 400 <= status /\ status < 500 /\ status # 429

\* "if e.status_code and e.status_code not in retry_on_status and e.status_code != 429"
NotInRetryList(status) ==
    status # None /\ status \notin retry_on_status /\ status # 429

KeepFirstException(prev, e) == IF prev = NoException THEN e ELSE prev

\* "last_exception = e"
RecordException(prev, e) == e

WrapperResult(res, calls, sleeps) ==
    [kind |-> res.kind, value |-> res.value, exc |-> res.exc,
     calls |-> calls, sleeps |-> sleeps]

\* The for loop of wrapper() from iteration `attempt` on, and the code after
\* it.  calls counts the invocations of func, sleeps lists the time.sleep
\* arguments in order.
RECURSIVE RetryLoop(_, _, _, _)
RetryLoop(resps, attempt, last_exception, sleeps) ==
    IF attempt >= max_retries
    THEN IF last_exception # NoException
         THEN WrapperResult(Raise(last_exception), attempt, sleeps)
         ELSE WrapperResult(Return(NoBody), attempt, sleeps)
    ELSE LET out == Func(resps[attempt + 1], attempt) IN
         IF out.kind = "return"
         THEN WrapperResult(out, attempt + 1, sleeps)
         ELSE IF IsAPIError(out.exc)
         THEN LET e == out.exc
                  le == RecordException(last_exception, e)
              IN  IF IsClientError(e.status)
                  THEN WrapperResult(Raise(e), attempt + 1, sleeps)
                  ELSE IF NotInRetryList(e.status)
                  THEN WrapperResult(Raise(e), attempt + 1, sleeps)
                  ELSE IF attempt < max_retries - 1
                  THEN RetryLoop(resps, attempt + 1, le,
                                 Append(sleeps, wait_time(attempt)))
                  ELSE RetryLoop(resps, attempt + 1, le, sleeps)
         ELSE WrapperResult(Raise(out.exc), attempt + 1, sleeps)

\* wrapper(*args, **kwargs)
Wrapper(resps) == RetryLoop(resps, 0, NoException, <<>>)

NoRet == WrapperResult(Return(NoBody), 0, <<>>)

-----------------------------------------------------------------------------
(* Token store (utils.py)                                                  *)

NoTokens == [n \in TokenNames |-> None]
NoFile == [exists |-> FALSE, tokens |-> NoTokens]

\* Faults of one store_token call: ok flags of keyring.set_password, of
\* reading tokens.json and of writing it.
\* (the file is only touched when the keyring write failed or is not used)
StoreEnvs == {e \in [kr_set : BOOLEAN, f_read : BOOLEAN, f_write : BOOLEAN] :
                e.kr_set => (e.f_read /\ e.f_write)}
\* Faults of one get_stored_token call.
ReadEnvs == [kr_get : BOOLEAN, f_read : BOOLEAN]
\* Faults of one clear_tokens call: which keyring deletions remove their
\* entry, and whether unlink works.
\* (nothing ever stores algolab_token, so its deletion has nothing to remove)
ClearEnvs == {e \in [kr_del : [TokenNames -> BOOLEAN], unlink : BOOLEAN] :
                e.kr_del["algolab_token"]}

\* get_stored_token(token_name)
GetStoredToken(kr, tf, name, e) ==
    IF use_keyring /\ e.kr_get
    THEN kr[name]
    ELSE IF tf.exists /\ e.f_read THEN tf.tokens[name] ELSE None

\* store_token(token_name, token_value): the store afterwards
StoreToken(kr, tf, name, value, e) ==
    IF use_keyring /\ e.kr_set
    THEN [kr |-> [kr EXCEPT ![name] = value], tf |-> tf]
    ELSE LET tokens == IF tf.exists /\ e.f_read THEN tf.tokens ELSE NoTokens
             new == [tokens EXCEPT ![name] = value]
         IN  IF e.f_write
             THEN [kr |-> kr, tf |-> [exists |-> TRUE, tokens |-> new]]
             ELSE [kr |-> kr, tf |-> tf]

\* What the Token Store holds as access token when nothing fails.
Persisted(kr, tf) == GetStoredToken(kr, tf, "access_token", [kr_get |-> TRUE, f_read |-> TRUE])

ClearTokensKeepFile(kr, tf, e) ==
    [kr |-> IF use_keyring
            THEN [n \in TokenNames |-> IF e.kr_del[n] THEN None ELSE kr[n]]
            ELSE kr,
     tf |-> tf,
     raised |-> FALSE,
     krfail |-> use_keyring /\ \E n \in TokenNames : kr[n] # None /\ ~e.kr_del[n]]

\* clear_tokens(): the store afterwards, whether the call raised (unlink is
\* not guarded) and whether a swallowed keyring failure left an entry behind.
ClearTokens(kr, tf, e) ==
    [kr |-> IF use_keyring
            THEN [n \in TokenNames |-> IF e.kr_del[n] THEN None ELSE kr[n]]
            ELSE kr,
     tf |-> IF tf.exists /\ e.unlink THEN NoFile ELSE tf,
     raised |-> tf.exists /\ ~e.unlink,
     krfail |-> use_keyring /\ \E n \in TokenNames : kr[n] # None /\ ~e.kr_del[n]]

-----------------------------------------------------------------------------
(* APIClient                                                               *)

\* now + timedelta(minutes=15), with now taken as 0
TokenLifetimeMinutes == 15

Session == [access_token |-> access_token, refresh_token |-> refresh_token,
            token_expiry |-> token_expiry]

NoSession == [access_token |-> None, refresh_token |-> None, token_expiry |-> None]

\* APIClient.is_authenticated
IsAuthenticated(token) == token # None

NoWire == [method |-> "none", authenticated |-> FALSE, bearer |-> None,
           token |-> None, stored |-> None]

\* The request as sent: its Authorization bearer and, next to it, the access
\* token the session and the store hold at that moment.
Sent(method, authenticated, token, kr, tf) ==
    [method |-> method, authenticated |-> authenticated,
     bearer |-> GetHeaders(authenticated, token),
     token |-> token, stored |-> Persisted(kr, tf)]

Methods == {"get", "post", "put", "delete"}

Op(name, raised, krfail) == [op |-> name, raised |-> raised, krfail |-> krfail]

\* One request of an operation: its path, what the call did, and the session
\* and the store it found.
Call(path, r, s, kr, tf) ==
    [path |-> path, ret |-> r, sess |-> s, kr |-> kr, tf |-> tf]

\* The answer to the OTP prompt: its length, when the prompt was shown.
NoOtp == [asked |-> FALSE, len |-> 0]
Otp(len) == [asked |-> TRUE, len |-> len]

\* What an AuthenticationManager operation gave back: the flow that ran, its
\* return value, its requests in order, algolab_authenticated as the flow
\* found it, and the OTP typed.
Out(flow, returned, calls, algolab, otp) ==
    [flow |-> flow, returned |-> returned, calls |-> calls,
     algolab |-> algolab, otp |-> otp]

NoOut == Out("none", None, <<>>, FALSE, NoOtp)

\* No stream view is open.
NoPoll == [view |-> "none", at |-> "none"]

SetSession(s) ==
    /\ access_token' = s.access_token
    /\ refresh_token' = s.refresh_token
    /\ token_expiry' = s.token_expiry

SetStore(st) ==
    /\ keyring' = st.kr
    /\ token_file' = st.tf
    /\ UNCHANGED use_keyring

RequestDroppingTokenOn401(m, authenticated, resps) ==
    /\ pc = "idle"
    /\ m \in Methods
    /\ (m # "post" => authenticated)
    /\ pc' = "done"
    /\ wire' = Sent(m, authenticated, access_token, keyring, token_file)
    /\ ret' = Wrapper(resps)
    /\ last' = Op("request", ret'.kind = "raise", FALSE)
    /\ access_token' = IF ret'.kind = "raise" /\ ret'.exc.status = 401
                       THEN None ELSE access_token
    /\ UNCHANGED <<refresh_token, token_expiry, use_keyring,
                   keyring, token_file, current_user, algolab_authenticated,
                   inp, result, poll,
                   watchlists, config_file>>

\* APIClient.get / post / put / delete
Request(m, authenticated, resps) ==
    /\ pc = "idle"
    /\ m \in Methods
    /\ (m # "post" => authenticated)
    /\ pc' = "done"
    /\ wire' = Sent(m, authenticated, access_token, keyring, token_file)
    /\ ret' = Wrapper(resps)
    /\ last' = Op("request", ret'.kind = "raise", FALSE)
    /\ UNCHANGED <<access_token, refresh_token, token_expiry, use_keyring,
                   keyring, token_file, current_user, algolab_authenticated,
                   inp, result, poll,
                   watchlists, config_file>>

\* The session and the store after the body of login() got `data`.
LoginEffect(s, kr, tf, data, e1, e2) ==
    LET st0 == [kr |-> kr, tf |-> tf]
        st1 == IF data.accessToken # None
               THEN StoreToken(kr, tf, "access_token", data.accessToken, e1)
               ELSE st0
        st2 == IF data.refreshToken # None
               THEN StoreToken(st1.kr, st1.tf, "refresh_token", data.refreshToken, e2)
               ELSE st1
    IN  [sess |-> [access_token |-> IF data.accessToken # None
                                    THEN data.accessToken ELSE s.access_token,
                   refresh_token |-> IF data.refreshToken # None
                                     THEN data.refreshToken ELSE s.refresh_token,
                   token_expiry |-> TokenLifetimeMinutes],
         kr |-> st2.kr, tf |-> st2.tf]

\* APIClient.login (not wrapped by the retry decorator)
Login(resp, e1, e2) ==
    /\ pc = "idle"
    /\ pc' = "done"
    /\ wire' = Sent("login", FALSE, access_token, keyring, token_file)
    /\ LET out == Func(resp, 0) IN
         /\ IF out.kind = "return"
            THEN LET eff == LoginEffect(Session, keyring, token_file, out.value, e1, e2)
                 IN  SetSession(eff.sess) /\ SetStore(eff)
            ELSE UNCHANGED <<access_token, refresh_token, token_expiry,
                             use_keyring, keyring, token_file>>
         /\ last' = Op("login", out.kind = "raise", FALSE)
    /\ ret' = NoRet
    /\ UNCHANGED <<current_user, algolab_authenticated, inp, result, poll,
                   watchlists, config_file>>

\* APIClient.refresh_access_token (not wrapped either)
RefreshAccessToken(resp, e) ==
    /\ pc = "idle"
    /\ pc' = "done"
    /\ IF refresh_token = None
       THEN /\ wire' = NoWire
            /\ last' = Op("refresh", TRUE, FALSE)
            /\ UNCHANGED <<access_token, refresh_token, token_expiry,
                           use_keyring, keyring, token_file>>
       ELSE LET out == Func(resp, 0) IN
            /\ wire' = [method |-> "refresh", authenticated |-> FALSE,
                        bearer |-> refresh_token, token |-> access_token,
                        stored |-> Persisted(keyring, token_file)]
            /\ last' = Op("refresh", out.kind = "raise", FALSE)
            /\ IF out.kind = "return" /\ out.value.accessToken # None
               THEN /\ access_token' = out.value.accessToken
                    /\ token_expiry' = TokenLifetimeMinutes
                    /\ SetStore(StoreToken(keyring, token_file, "access_token",
                                           out.value.accessToken, e))
                    /\ UNCHANGED refresh_token
               ELSE UNCHANGED <<access_token, refresh_token, token_expiry,
                                use_keyring, keyring, token_file>>
    /\ ret' = NoRet
    /\ UNCHANGED <<current_user, algolab_authenticated, inp, result, poll,
                   watchlists, config_file>>

LogoutSessionOnSuccess(s, r) == IF r.kind = "return" THEN NoSession ELSE s

\* The finally clause of logout(): the session after it, whatever the
\* result r of the POST was.
LogoutSession(s, r) == NoSession

\* APIClient.logout: POST /api/v1/auth/logout through the wrapper, its
\* exception swallowed, then the finally clause.
ApiLogoutEffect(s, kr, tf, r, ce) ==
    LET c == ClearTokens(kr, tf, ce)
    IN  [sess |-> LogoutSession(s, r), kr |-> c.kr, tf |-> c.tf,
         raised |-> c.raised, krfail |-> c.krfail]

\* APIClient.logout called on its own
ApiLogout(resps, ce) ==
    /\ pc = "idle"
    /\ pc' = "done"
    /\ wire' = Sent("post", TRUE, access_token, keyring, token_file)
    /\ ret' = Wrapper(resps)
    /\ LET eff == ApiLogoutEffect(Session, keyring, token_file, ret', ce) IN
         /\ SetSession(eff.sess)
         /\ SetStore(eff)
         /\ last' = Op("api_logout", eff.raised, eff.krfail)
    /\ UNCHANGED <<current_user, algolab_authenticated, inp, result, poll,
                   watchlists, config_file>>

-----------------------------------------------------------------------------
(* AuthenticationManager                                                   *)

\* AuthenticationManager.logout, run on the store <<kr, tf>>
AuthLogoutFrom(name, kr, tf, resps, ce) ==
    /\ wire' = Sent("post", TRUE, access_token, kr, tf)
    /\ ret' = Wrapper(resps)
    /\ LET eff == ApiLogoutEffect(Session, kr, tf, ret', ce) IN
         /\ SetSession(eff.sess)
         /\ SetStore(eff)
         /\ IF eff.raised
            THEN UNCHANGED <<current_user, algolab_authenticated>>
            ELSE current_user' = None /\ algolab_authenticated' = FALSE
         /\ last' = Op(name, FALSE, eff.krfail)

\* AuthenticationManager.logout
AuthLogout(resps, ce) ==
    /\ pc = "idle"
    /\ pc' = "done"
    /\ AuthLogoutFrom("auth_logout", keyring, token_file, resps, ce)
    /\ UNCHANGED <<inp, result, poll, watchlists, config_file>>

CheckStatusEffectFailOpen(r) ==
    IF r.kind = "return"
    THEN [algolab |-> r.value.authenticated = "true", returned |-> r.value]
    ELSE [algolab |-> TRUE, returned |-> [authenticated |-> "false"]]

\* The body of check_algolab_status once the GET ended as r: the flag it
\* sets (response.get("authenticated", False)) and the mapping it returns.
CheckStatusEffect(r) ==
    IF r.kind = "return"
    THEN [algolab |-> r.value.authenticated = "true", returned |-> r.value]
    ELSE [algolab |-> FALSE, returned |-> [authenticated |-> "false"]]

\* AuthenticationManager.check_algolab_status
CheckAlgolabStatus(resps) ==
    /\ pc = "idle"
    /\ pc' = "done"
    /\ wire' = Sent("get", TRUE, access_token, keyring, token_file)
    /\ ret' = Wrapper(resps)
    /\ LET eff == CheckStatusEffect(ret') IN
         /\ algolab_authenticated' = eff.algolab
         /\ result' = Out("check_algolab_status", eff.returned,
                       <<Call("/api/v1/broker/auth/status", ret', Session,
                              keyring, token_file)>>,
                       algolab_authenticated, NoOtp)
    /\ last' = Op("check_algolab_status", FALSE, FALSE)
    /\ UNCHANGED <<access_token, refresh_token, token_expiry, use_keyring,
                   keyring, token_file, current_user, inp, poll,
                   watchlists, config_file>>

\* AuthenticationManager.is_logged_in
IsLoggedIn(token) == IsAuthenticated(token)

LoginCallSetsExpiryFirst(s, kr, tf, resp, e1, e2) ==
    LET r == Func(resp, 0) IN
    IF r.kind = "return"
    THEN LET eff == LoginEffect(s, kr, tf, r.value, e1, e2)
         IN  [r |-> r, sess |-> eff.sess, kr |-> eff.kr, tf |-> eff.tf]
    ELSE [r |-> r, sess |-> [s EXCEPT !.token_expiry = TokenLifetimeMinutes],
          kr |-> kr, tf |-> tf]

\* APIClient.login run on the session s and the store <<kr, tf>>: how the
\* call ended, and the session and the store after it.
LoginCall(s, kr, tf, resp, e1, e2) ==
    LET r == Func(resp, 0) IN
    IF r.kind = "return"
    THEN LET eff == LoginEffect(s, kr, tf, r.value, e1, e2)
         IN  [r |-> r, sess |-> eff.sess, kr |-> eff.kr, tf |-> eff.tf]
    ELSE [r |-> r, sess |-> s, kr |-> kr, tf |-> tf]

\* What login_flow leaves behind: its return value (or that an exception
\* left it), the session, the store, current_user, and its requests.
FlowEnd(returned, raised, s, kr, tf, user, calls) ==
    [returned |-> returned, raised |-> raised, sess |-> s, kr |-> kr,
     tf |-> tf, user |-> user, calls |-> calls]

\* login_flow from the call of APIClient.login on: lc is what the call did,
\* calls the requests of the flow with that call.
AfterLogin(lc, user, calls) ==
    IF lc.r.kind = "return"
    THEN FlowEnd(TRUE, FALSE, lc.sess, lc.kr, lc.tf,
                 IF lc.r.value.user # None THEN lc.r.value.user ELSE user,
                 calls)
    ELSE FlowEnd(FALSE, FALSE, lc.sess, lc.kr, lc.tf, user, calls)

\* login_flow from the credential prompts on, in the session s with the
\* store <<kr, tf>>, after the requests c0.
AskAndLogin(s, user, kr, tf, c0, creds, login_resp, e1, e2) ==
    IF ~creds
    THEN FlowEnd(FALSE, FALSE, s, kr, tf, user, c0)
    ELSE AfterLogin(LoginCall(s, kr, tf, login_resp, e1, e2), user,
                    Append(c0, Call("/api/v1/auth/login",
                                    WrapperResult(Func(login_resp, 0), 1, <<>>),
                                    s, kr, tf)))

\* login_flow after self.api.logout() ended as lo; an exception of logout
\* leaves the flow.
AfterLogout(lo, user, c0, creds, login_resp, e1, e2) ==
    IF lo.raised
    THEN FlowEnd(FALSE, TRUE, lo.sess, lo.kr, lo.tf, user, c0)
    ELSE AskAndLogin(lo.sess, user, lo.kr, lo.tf, c0, creds, login_resp, e1, e2)

\* AuthenticationManager.login_flow.  confirm is the answer to "start a new
\* session?", creds tells whether both username and password were typed,
\* lr is how the POST of logout ended.
LoginFlowEffect(s, user, kr, tf, confirm, creds, lr, ce, login_resp, e1, e2) ==
    IF IsAuthenticated(s.access_token)
    THEN IF confirm
         THEN AfterLogout(ApiLogoutEffect(s, kr, tf, lr, ce), user,
                          <<Call("/api/v1/auth/logout", lr, s, kr, tf)>>,
                          creds, login_resp, e1, e2)
         ELSE FlowEnd(TRUE, FALSE, s, kr, tf, user, <<>>)
    ELSE AskAndLogin(s, user, kr, tf, <<>>, creds, login_resp, e1, e2)

\* The last request of a flow, as history.
LastRequest(calls) ==
    IF calls = <<>> THEN NoWire
    ELSE IF calls[Len(calls)].path = "/api/v1/auth/login"
    THEN Sent("login", FALSE, calls[Len(calls)].sess.access_token,
              calls[Len(calls)].kr, calls[Len(calls)].tf)
    ELSE Sent("post", TRUE, calls[Len(calls)].sess.access_token,
              calls[Len(calls)].kr, calls[Len(calls)].tf)

\* The state login_flow leaves, given its effect.
LoginFlowDone(eff) ==
    /\ SetSession(eff.sess)
    /\ SetStore(eff)
    /\ current_user' = eff.user
    /\ result' = Out("login_flow", eff.returned, eff.calls,
                     algolab_authenticated, NoOtp)
    /\ last' = Op("login_flow", eff.raised, FALSE)
    /\ ret' = IF eff.calls = <<>> THEN NoRet ELSE eff.calls[Len(eff.calls)].ret
    /\ wire' = LastRequest(eff.calls)

\* AuthenticationManager.login_flow
LoginFlow(confirm, creds, logout_resps, ce, login_resp, e1, e2) ==
    /\ pc = "idle"
    /\ pc' = "done"
    /\ LoginFlowDone(LoginFlowEffect(Session, current_user, keyring, token_file,
                                     confirm, creds, Wrapper(logout_resps), ce,
                                     login_resp, e1, e2))
    /\ UNCHANGED <<algolab_authenticated, inp, poll, watchlists, config_file>>

\* A flag of a broker response: true, false, or the key is absent.
Flags == {"true", "false", "missing"}

\* response.get(key) used as a condition
Truthy(v) == v = "true"

\* Bodies of POST /api/v1/broker/auth/login and /api/v1/broker/auth/verify-otp
BrokerLoginBodies == [smsSent : Flags, success : Flags]
VerifyBodies == [authenticated : Flags, success : Flags]

\* "if login_response.get("smsSent") or login_response.get("success")"
OtpRequired(body) == Truthy(body.smsSent) \/ Truthy(body.success)

MinOtpLen == 4

OtpRejectedEmptyOnly(len) == len = 0

\* "if not otp_code or len(otp_code) < 4"
OtpRejected(len) == len = 0 \/ len < MinOtpLen

VerifyAcceptedEither(body) == Truthy(body.authenticated) \/ Truthy(body.success)

\* "if verify_response.get("authenticated") and verify_response.get("success")"
VerifyAccepted(body) == Truthy(body.authenticated) /\ Truthy(body.success)

\* How algolab_auth_flow ends: its return value, algolab_authenticated
\* afterwards, its requests, and the OTP typed.
BrokerEnd(returned, algolab, calls, otp) ==
    [returned |-> returned, algolab |-> algolab, calls |-> calls, otp |-> otp]

\* AuthenticationManager.algolab_auth_flow, entered with the flag `algolab`.
\* creds tells whether both broker username and password were typed,
\* otp_len is the length of the answer to the OTP prompt.
AlgolabAuthEffect(s, kr, tf, algolab, creds, login_resps, otp_len, verify_resps) ==
    IF ~IsAuthenticated(s.access_token)
    THEN BrokerEnd(FALSE, algolab, <<>>, NoOtp)
    ELSE IF ~creds
    THEN BrokerEnd(FALSE, algolab, <<>>, NoOtp)
    ELSE LET r1 == Wrapper(login_resps)
             c1 == <<Call("/api/v1/broker/auth/login", r1, s, kr, tf)>>
         IN  IF r1.kind = "raise"
             THEN BrokerEnd(FALSE, algolab, c1, NoOtp)
             ELSE IF OtpRequired(r1.value)
             THEN IF OtpRejected(otp_len)
                  THEN BrokerEnd(FALSE, algolab, c1, Otp(otp_len))
                  ELSE LET r2 == Wrapper(verify_resps)
                           c2 == Append(c1, Call("/api/v1/broker/auth/verify-otp",
                                                 r2, s, kr, tf))
                       IN  IF r2.kind = "raise"
                           THEN BrokerEnd(FALSE, algolab, c2, Otp(otp_len))
                           ELSE IF VerifyAccepted(r2.value)
                           THEN BrokerEnd(TRUE, TRUE, c2, Otp(otp_len))
                           ELSE BrokerEnd(FALSE, algolab, c2, Otp(otp_len))
             ELSE BrokerEnd(TRUE, TRUE, c1, NoOtp)

\* The history a broker flow leaves: the flow's result and its last request.
BrokerFlowDone(name, eff, algolab) ==
    /\ algolab_authenticated' = eff.algolab
    /\ result' = Out("algolab_auth_flow", eff.returned, eff.calls, algolab, eff.otp)
    /\ last' = Op(name, FALSE, FALSE)
    /\ ret' = IF eff.calls = <<>> THEN NoRet ELSE eff.calls[Len(eff.calls)].ret
    /\ wire' = IF eff.calls = <<>> THEN NoWire
               ELSE Sent("post", TRUE, access_token, keyring, token_file)

\* AuthenticationManager.algolab_auth_flow
AlgolabAuthFlow(creds, login_resps, otp_len, verify_resps) ==
    /\ pc = "idle"
    /\ pc' = "done"
    /\ BrokerFlowDone("algolab_auth_flow",
                      AlgolabAuthEffect(Session, keyring, token_file,
                                        algolab_authenticated, creds,
                                        login_resps, otp_len, verify_resps),
                      algolab_authenticated)
    /\ UNCHANGED <<access_token, refresh_token, token_expiry, use_keyring,
                   keyring, token_file, current_user, inp, poll,
                   watchlists, config_file>>

\* AuthenticationManager.get_user_profile
GetUserProfile(resps) ==
    /\ pc = "idle"
    /\ pc' = "done"
    /\ wire' = Sent("get", TRUE, access_token, keyring, token_file)
    /\ ret' = Wrapper(resps)
    /\ current_user' = IF ret'.kind = "return" THEN ret'.value.user ELSE current_user
    /\ last' = Op("get_user_profile",
                  ret'.kind = "raise" /\ ~IsAPIError(ret'.exc), FALSE)
    /\ UNCHANGED <<access_token, refresh_token, token_expiry, use_keyring,
                   keyring, token_file, algolab_authenticated, inp, result, poll,
                   watchlists, config_file>>

-----------------------------------------------------------------------------
(* MainMenu                                                                *)

\* MainMenu._clear_tokens, confirmed by the user: clear_tokens(), then
\* self.auth.logout(); an exception of clear_tokens() leaves the handler.
MenuClearTokens(ce1, resps, ce2) ==
    /\ pc = "idle"
    /\ pc' = "done"
    /\ LET c == ClearTokens(keyring, token_file, ce1) IN
         IF c.raised
         THEN /\ SetStore(c)
              /\ wire' = NoWire
              /\ ret' = NoRet
              /\ last' = Op("menu_clear_tokens", TRUE, c.krfail)
              /\ UNCHANGED <<access_token, refresh_token, token_expiry,
                             current_user, algolab_authenticated>>
         ELSE AuthLogoutFrom("menu_clear_tokens", c.kr, c.tf, resps, ce2)
    /\ UNCHANGED <<inp, result, poll, watchlists, config_file>>

\* MainMenu.handle_algolab_connection.  confirm is the answer to "start a
\* new connection?", asked when the status check says authenticated.
HandleAlgolabConnection(status_resps, confirm, creds, login_resps, otp_len, verify_resps) ==
    /\ pc = "idle"
    /\ pc' = "done"
    /\ IF ~IsLoggedIn(access_token)
       THEN /\ wire' = NoWire
            /\ ret' = NoRet
            /\ result' = NoOut
            /\ last' = Op("handle_algolab_connection", FALSE, FALSE)
            /\ UNCHANGED algolab_authenticated
       ELSE LET sr == Wrapper(status_resps)
                st == CheckStatusEffect(sr)
            IN  IF Truthy(st.returned.authenticated) /\ ~confirm
                THEN /\ wire' = Sent("get", TRUE, access_token, keyring, token_file)
                     /\ ret' = sr
                     /\ algolab_authenticated' = st.algolab
                     /\ result' = Out("check_algolab_status", st.returned,
                                      <<Call("/api/v1/broker/auth/status", sr,
                                             Session, keyring, token_file)>>,
                                      algolab_authenticated, NoOtp)
                     /\ last' = Op("handle_algolab_connection", FALSE, FALSE)
                ELSE BrokerFlowDone("handle_algolab_connection",
                                    AlgolabAuthEffect(Session, keyring, token_file,
                                                      st.algolab, creds, login_resps,
                                                      otp_len, verify_resps),
                                    st.algolab)
    /\ UNCHANGED <<access_token, refresh_token, token_expiry, use_keyring,
                   keyring, token_file, current_user, inp, poll,
                   watchlists, config_file>>

EntersBrokerMenuAfterAnyFlow(logged_in, algolab, confirm, flow_returned) ==
    logged_in /\ (algolab \/ confirm)

\* Whether handle_broker_operations reaches self.broker.broker_menu():
\* logged in, and the broker session is there or the user asks for the
\* flow and it returns True.
EntersBrokerMenu(logged_in, algolab, confirm, flow_returned) ==
    logged_in /\ (algolab \/ (confirm /\ flow_returned))

\* MainMenu.handle_broker_operations up to the call of broker_menu().
\* confirm is the answer to "authenticate with AlgoLab?", asked when there
\* is no broker session.
HandleBrokerOperations(confirm, creds, login_resps, otp_len, verify_resps) ==
    /\ pc = "idle"
    /\ IF IsLoggedIn(access_token) /\ ~algolab_authenticated /\ confirm
       THEN /\ BrokerFlowDone("handle_broker_operations",
                              AlgolabAuthEffect(Session, keyring, token_file,
                                                algolab_authenticated, creds,
                                                login_resps, otp_len, verify_resps),
                              algolab_authenticated)
            /\ pc' = IF EntersBrokerMenu(TRUE, FALSE, TRUE, result'.returned)
                     THEN "broker_menu" ELSE "done"
       ELSE /\ wire' = NoWire
            /\ ret' = NoRet
            /\ result' = NoOut
            /\ last' = Op("handle_broker_operations", FALSE, FALSE)
            /\ UNCHANGED algolab_authenticated
            /\ pc' = IF EntersBrokerMenu(IsLoggedIn(access_token),
                                         algolab_authenticated, confirm, FALSE)
                     THEN "broker_menu" ELSE "done"
    /\ UNCHANGED <<access_token, refresh_token, token_expiry, use_keyring,
                   keyring, token_file, current_user, inp, poll,
                   watchlists, config_file>>

\* BrokerManager.broker_menu: "13. Geri Dön" leaves the menu.
LeaveBrokerMenu ==
    /\ pc = "broker_menu"
    /\ pc' = "done"
    /\ UNCHANGED <<access_token, refresh_token, token_expiry, use_keyring,
                   keyring, token_file, current_user, algolab_authenticated,
                   wire, ret, last, inp, result, poll,
                   watchlists, config_file>>

\* A new process: MainMenu.__init__ builds APIClient (which runs
\* _load_stored_tokens) and AuthenticationManager.
Restart(e1, e2) ==
    /\ pc = "idle"
    /\ pc' = "done"
    /\ access_token' = GetStoredToken(keyring, token_file, "access_token", e1)
    /\ refresh_token' = GetStoredToken(keyring, token_file, "refresh_token", e2)
    /\ token_expiry' = None
    /\ current_user' = None
    /\ algolab_authenticated' = FALSE
    /\ wire' = NoWire
    /\ ret' = NoRet
    /\ last' = Op("restart", FALSE, FALSE)
    /\ UNCHANGED <<use_keyring, keyring, token_file, inp, result, poll,
                   watchlists, config_file>>

\* APIClient._handle_response on the non-2xx response r: the APIError raised,
\* as its status_code and its message.
HandleErrorResponse(r) ==
    /\ pc = "idle"
    /\ pc' = "done"
    /\ r \in ErrorResponses
    /\ result' = Out("_handle_response",
                     [status_code |-> HandleResponse(r, 0).exc.status,
                      message |-> ErrorMessage(r)],
                     <<>>, algolab_authenticated, NoOtp)
    /\ last' = Op("_handle_response", TRUE, FALSE)
    /\ wire' = NoWire
    /\ ret' = NoRet
    /\ UNCHANGED <<access_token, refresh_token, token_expiry, use_keyring,
                   keyring, token_file, current_user, algolab_authenticated,
                   inp, poll,
                   watchlists, config_file>>

-----------------------------------------------------------------------------
(* BrokerManager: the polling loops of the tick view and the trade view    *)

\* time.sleep(1) after an iteration, time.sleep(2) in the exception handler
PollSleep == 1
ErrorSleep == 2

\* "elif consecutive_empty > 10"
EmptyWarnAfter == 10

Views == {"ticks", "trades"}


\* consecutive_empty += 1.  The loops only test the counter against 1 and
\* against 10, so the values above EmptyWarnAfter + 1 are kept as one.
NextEmpty(n) == IF n > EmptyWarnAfter THEN EmptyWarnAfter + 1 ELSE n + 1

\* What live.update() is given when a poll brought no message.
EmptyDisplay(view, shown, n) ==
    IF view = "ticks"
    THEN IF n = 1 THEN "waiting, tip"
         ELSE IF n > EmptyWarnAfter THEN "waiting, no data warning"
         ELSE "waiting"
    ELSE IF n = 1 THEN "waiting" ELSE shown

\* The loop of `view` at position `at`: consecutive_empty, the table on
\* display, the argument of the last time.sleep, the exception the current
\* iteration raised and whether print_error showed it, and the exception
\* that left the loop.
Polling(view, at, n, shown, slept, error, reported, left_by) ==
    [view |-> view, at |-> at, consecutive_empty |-> n, shown |-> shown,
     slept |-> slept, error |-> error, reported |-> reported,
     left_by |-> left_by]

\* `with Live(create_table([]), ...) as live:` and the counters set to 0
EnterLoop(view) ==
    Polling(view, "poll", 0, "table", 0, "none", FALSE, "none")

\* An exception leaves the loop (and the `with` block).
Leave(p, exc) == [p EXCEPT !.at = "closed", !.left_by = exc]

CaughtOnlyAPIError(exc) == exc = "APIError"

\* `except Exception as e` in the loop: every exception of an iteration
\* other than KeyboardInterrupt.
Caught(exc) == exc # "KeyboardInterrupt"

\* An exception raised inside the try block of an iteration.
RaiseInLoop(p, exc) ==
    IF Caught(exc)
    THEN [p EXCEPT !.at = "handler", !.error = exc, !.reported = FALSE]
    ELSE Leave(p, exc)

\* BrokerManager.view_realtime_ticks up to the loop: the status check
\* returns from the view when the backend says it is not connected; a
\* failing check and any result of the subscription go on to the loop.
OpenTickView(status_resps, sub_resps) ==
    /\ pc = "idle"
    /\ LET st == Wrapper(status_resps) IN
       IF st.kind = "return" /\ ~Truthy(st.value.connected)
       THEN /\ pc' = "done"
            /\ poll' = NoPoll
            /\ ret' = st
            /\ wire' = Sent("get", TRUE, access_token, keyring, token_file)
       ELSE /\ pc' = "polling"
            /\ poll' = EnterLoop("ticks")
            /\ ret' = Wrapper(sub_resps)
            /\ wire' = Sent("post", TRUE, access_token, keyring, token_file)
    /\ last' = Op("view_realtime_ticks", FALSE, FALSE)
    /\ UNCHANGED <<access_token, refresh_token, token_expiry, use_keyring,
                   keyring, token_file, current_user, algolab_authenticated,
                   inp, result,
                   watchlists, config_file>>

\* BrokerManager.view_trade_stream up to the loop
OpenTradeView ==
    /\ pc = "idle"
    /\ pc' = "polling"
    /\ poll' = EnterLoop("trades")
    /\ last' = Op("view_trade_stream", FALSE, FALSE)
    /\ UNCHANGED <<access_token, refresh_token, token_expiry, use_keyring,
                   keyring, token_file, current_user, algolab_authenticated,
                   wire, ret, inp, result,
                   watchlists, config_file>>

\* One pass through the try block of the loop: the GET, the table, the
\* update of the display, up to the call of time.sleep(1).  interrupt tells
\* whether Ctrl+C arrives during it.
PollOnce(resps, interrupt) ==
    /\ pc = "polling"
    /\ poll.at = "poll"
    /\ wire' = Sent("get", TRUE, access_token, keyring, token_file)
    /\ ret' = IF interrupt THEN NoRet ELSE Wrapper(resps)
    /\ poll' =
         IF interrupt THEN Leave(poll, "KeyboardInterrupt")
         ELSE IF ret'.kind = "raise" THEN RaiseInLoop(poll, ret'.exc.type)
         ELSE IF ret'.value.messages = "rows"
         THEN [poll EXCEPT !.at = "sleep", !.consecutive_empty = 0,
                           !.shown = "table", !.slept = PollSleep,
                           !.error = "none", !.reported = FALSE]
         ELSE IF ret'.value.messages = "bad rows"
         THEN RaiseInLoop([poll EXCEPT !.consecutive_empty = 0], "Exception")
         ELSE LET n == NextEmpty(poll.consecutive_empty) IN
              [poll EXCEPT !.at = "sleep", !.consecutive_empty = n,
                           !.shown = EmptyDisplay(poll.view, poll.shown, n),
                           !.slept = PollSleep,
                           !.error = "none", !.reported = FALSE]
    /\ UNCHANGED <<access_token, refresh_token, token_expiry, use_keyring,
                   keyring, token_file, current_user, algolab_authenticated,
                   pc, last, inp, result,
                   watchlists, config_file>>

\* The handler of the loop: print_error, up to the call of time.sleep(2).
ReportError(interrupt) ==
    /\ pc = "polling"
    /\ poll.at = "handler"
    /\ poll' = IF interrupt THEN Leave(poll, "KeyboardInterrupt")
               ELSE [poll EXCEPT !.at = "sleep", !.reported = TRUE,
                                 !.slept = ErrorSleep]
    /\ UNCHANGED <<access_token, refresh_token, token_expiry, use_keyring,
                   keyring, token_file, current_user, algolab_authenticated,
                   pc, wire, ret, last, inp, result,
                   watchlists, config_file>>

\* time.sleep returns and `while True` starts the next iteration.
WakeUp(interrupt) ==
    /\ pc = "polling"
    /\ poll.at = "sleep"
    /\ poll' = IF interrupt THEN Leave(poll, "KeyboardInterrupt")
               ELSE [poll EXCEPT !.at = "poll"]
    /\ UNCHANGED <<access_token, refresh_token, token_expiry, use_keyring,
                   keyring, token_file, current_user, algolab_authenticated,
                   pc, wire, ret, last, inp, result,
                   watchlists, config_file>>

\* The handlers around the loop: the view prints its closing line (or the
\* error that left the loop) and returns.
CloseView ==
    /\ pc = "polling"
    /\ poll.at = "closed"
    /\ pc' = "done"
    /\ UNCHANGED <<access_token, refresh_token, token_expiry, use_keyring,
                   keyring, token_file, current_user, algolab_authenticated,
                   wire, ret, last, inp, result, poll,
                   watchlists, config_file>>

\* The operation returns to its caller, which may start the next one.
ReturnToCaller ==
    /\ pc = "done"
    /\ pc' = "idle"
    /\ wire' = NoWire
    /\ ret' = NoRet
    /\ last' = Op("idle", FALSE, FALSE)
    /\ result' = NoOut
    /\ poll' = NoPoll
    /\ UNCHANGED <<access_token, refresh_token, token_expiry, use_keyring,
                   keyring, token_file, current_user, algolab_authenticated, inp,
                   watchlists, config_file>>

-----------------------------------------------------------------------------
(* Watchlist                                                               *)

\* A text: its words in order, " " standing for white space between or
\* around them.

\* str.upper(), word by word
Upper(text) ==
    [i \in 1..Len(text) |->
        CASE text[i] = "akbnk" -> "AKBNK"
          [] text[i] = "Thyao" -> "THYAO"
          [] text[i] = "tech" -> "TECH"
          [] text[i] = "default" -> "DEFAULT"
          [] OTHER -> text[i]]

\* str.strip(): white space at both ends goes
Strip(text) ==
    LET words == {i \in 1..Len(text) : text[i] # " "} IN
    IF words = {} THEN <<>>
    ELSE SubSeq(text, CHOOSE i \in words : \A j \in words : i <= j,
                      CHOOSE i \in words : \A j \in words : i >= j)

NormalizeSymbolStripOnly(symbol) == Strip(symbol)

\* symbol.upper().strip()
NormalizeSymbol(symbol) == Strip(Upper(symbol))

\* {"default": []}
DefaultWatchlists == [n \in {<<"default">>} |-> <<>>]

\* watchlists.json: there is none ("absent"), it is not JSON ("broken"), or
\* it holds the members of one JSON object in order ("json").
NoConfigFile == [state |-> "absent", text |-> <<>>]

\* The keys of a mapping in the order json.dump writes them.
RECURSIVE KeysInOrder(_)
KeysInOrder(names) ==
    IF names = {} THEN <<>>
    ELSE <<CHOOSE n \in names : TRUE>>
            \o KeysInOrder(names \ {CHOOSE n \in names : TRUE})

\* json.dump(self.watchlists, f): the members, key and value
JsonDump(mapping) ==
    [i \in 1..Cardinality(DOMAIN mapping) |->
        <<KeysInOrder(DOMAIN mapping)[i], mapping[KeysInOrder(DOMAIN mapping)[i]]>>]

\* json.load(f): of members with the same key the last counts
JsonLoad(text) ==
    [n \in {text[i][1] : i \in 1..Len(text)} |->
        text[CHOOSE i \in 1..Len(text) :
                /\ text[i][1] = n
                /\ \A j \in (i + 1)..Len(text) : text[j][1] # n][2]]

\* Watchlist.load
load(file) ==
    IF file.state = "json" THEN JsonLoad(file.text) ELSE DefaultWatchlists

\* Watchlist.save: the file afterwards.  The file is written ("saved");
\* mkdir or open raises and the file stays as it was ("not opened"); or
\* open has truncated the file and json.dump raises ("not written").
save(mapping, file, outcome) ==
    IF outcome = "saved" THEN [state |-> "json", text |-> JsonDump(mapping)]
    ELSE IF outcome = "not opened" THEN file
    ELSE [state |-> "broken", text |-> <<>>]

\* list.remove(x): the first occurrence goes
RECURSIVE Remove(_, _)
Remove(list, x) ==
    IF list = <<>> THEN <<>>
    ELSE IF Head(list) = x THEN Tail(list)
    ELSE <<Head(list)>> \o Remove(Tail(list), x)

\* self.watchlists[name] = value
Put(mapping, name, value) ==
    [n \in DOMAIN mapping \cup {name} |-> IF n = name THEN value ELSE mapping[n]]

\* del self.watchlists[name]
Del(mapping, name) == [n \in DOMAIN mapping \ {name} |-> mapping[n]]

\* What a watchlist method was called with and what it returned.
WatchlistCall(name, args, returned) ==
    /\ pc = "idle"
    /\ pc' = "done"
    /\ last' = Op(name, FALSE, FALSE)
    /\ inp' = args
    /\ result' = [returned |-> returned]
    /\ UNCHANGED <<access_token, refresh_token, token_expiry, use_keyring,
                   keyring, token_file, current_user, algolab_authenticated,
                   wire, ret, poll>>

\* Watchlist.add_symbol
add_symbol(symbol, list_name, outcome) ==
    IF list_name \in DOMAIN watchlists
       /\ \E i \in 1..Len(watchlists[list_name]) :
             watchlists[list_name][i] = NormalizeSymbol(symbol)
    THEN /\ WatchlistCall("add_symbol", <<symbol, list_name>>, FALSE)
         /\ UNCHANGED <<watchlists, config_file>>
    ELSE /\ WatchlistCall("add_symbol", <<symbol, list_name>>, TRUE)
         /\ watchlists' =
               Put(watchlists, list_name,
                   Append(IF list_name \in DOMAIN watchlists
                          THEN watchlists[list_name] ELSE <<>>,
                          NormalizeSymbol(symbol)))
         /\ config_file' = save(watchlists', config_file, outcome)

\* Watchlist.remove_symbol
remove_symbol(symbol, list_name, outcome) ==
    IF list_name \in DOMAIN watchlists
       /\ \E i \in 1..Len(watchlists[list_name]) :
             watchlists[list_name][i] = NormalizeSymbol(symbol)
    THEN /\ WatchlistCall("remove_symbol", <<symbol, list_name>>, TRUE)
         /\ watchlists' =
               Put(watchlists, list_name,
                   Remove(watchlists[list_name], NormalizeSymbol(symbol)))
         /\ config_file' = save(watchlists', config_file, outcome)
    ELSE /\ WatchlistCall("remove_symbol", <<symbol, list_name>>, FALSE)
         /\ UNCHANGED <<watchlists, config_file>>

\* Watchlist.create_list
create_list(list_name, outcome) ==
    IF Strip(list_name) \in DOMAIN watchlists
    THEN /\ WatchlistCall("create_list", <<list_name>>, FALSE)
         /\ UNCHANGED <<watchlists, config_file>>
    ELSE /\ WatchlistCall("create_list", <<list_name>>, TRUE)
         /\ watchlists' = Put(watchlists, Strip(list_name), <<>>)
         /\ config_file' = save(watchlists', config_file, outcome)

\* Watchlist.delete_list
delete_list(list_name, outcome) ==
    IF list_name # <<"default">> /\ list_name \in DOMAIN watchlists
    THEN /\ WatchlistCall("delete_list", <<list_name>>, TRUE)
         /\ watchlists' = Del(watchlists, list_name)
         /\ config_file' = save(watchlists', config_file, outcome)
    ELSE /\ WatchlistCall("delete_list", <<list_name>>, FALSE)
         /\ UNCHANGED <<watchlists, config_file>>

\* Watchlist.rename_list
rename_list(old_name, new_name, outcome) ==
    IF old_name \in DOMAIN watchlists /\ new_name \notin DOMAIN watchlists
    THEN /\ WatchlistCall("rename_list", <<old_name, new_name>>, TRUE)
         /\ watchlists' = Put(Del(watchlists, old_name), new_name, watchlists[old_name])
         /\ config_file' = save(watchlists', config_file, outcome)
    ELSE /\ WatchlistCall("rename_list", <<old_name, new_name>>, FALSE)
         /\ UNCHANGED <<watchlists, config_file>>

\* Watchlist(): a manager constructed anew loads the file.
NewWatchlist ==
    /\ WatchlistCall("__init__", <<>>, TRUE)
    /\ watchlists' = load(config_file)
    /\ UNCHANGED config_file

-----------------------------------------------------------------------------
(* Specifications                                                          *)

LoginBodies ==
    [accessToken : Tokens \cup {None}, refreshToken : {1, None},
     user : {1, None}, authenticated : {"missing"}]
RefreshBodies ==
    [accessToken : Tokens \cup {None}, refreshToken : {None},
     user : {None}, authenticated : {"missing"}]
StatusBodies ==
    [accessToken : {None}, refreshToken : {None},
     user : {None}, authenticated : {"true", "false", "missing"}]
ProfileBodies ==
    [accessToken : {None}, refreshToken : {None},
     user : {1}, authenticated : {"missing"}]

\* A server that answers 503 to the first k attempts of a call and `final`
\* to every later one.
Flaky(k, final) ==
    [i \in 1..max_retries |-> IF i <= k THEN HttpResponse(503, TRUE, NoBody) ELSE final]

\* The servers the operations of the session are run against.
ServerRuns(finals) ==
    {Flaky(k, f) : k \in 0..max_retries, f \in finals}

\* For the operations that only look at how the wrapped call ended.
OkOrDown(bodies) == {HttpResponse(200, TRUE, b) : b \in bodies} \cup {NetError}

Init ==
    /\ access_token = None
    /\ refresh_token = None
    /\ token_expiry = None
    /\ current_user = None
    /\ algolab_authenticated = FALSE
    /\ use_keyring \in BOOLEAN
    /\ keyring = NoTokens
    /\ token_file = NoFile
    /\ pc = "idle"
    /\ wire = NoWire
    /\ ret = NoRet
    /\ inp = <<>>
    /\ last = Op("idle", FALSE, FALSE)
    /\ result = NoOut
    /\ poll = NoPoll
    /\ watchlists = DefaultWatchlists
    /\ config_file = NoConfigFile

Next ==
    \/ \E m \in Methods, a \in BOOLEAN, resps \in ServerRuns(FewResponses({NoBody})) :
          Request(m, a, resps)
    \/ \E resp \in FewResponses(LoginBodies), e1 \in StoreEnvs, e2 \in StoreEnvs :
          Login(resp, e1, e2)
    \/ \E resp \in FewResponses(RefreshBodies), e \in StoreEnvs :
          RefreshAccessToken(resp, e)
    \/ \E resps \in ServerRuns(OkOrDown({NoBody})), ce \in ClearEnvs :
          ApiLogout(resps, ce)
    \/ \E resps \in ServerRuns(OkOrDown({NoBody})), ce \in ClearEnvs :
          AuthLogout(resps, ce)
    \/ \E resps \in ServerRuns(OkOrDown(StatusBodies)) :
          CheckAlgolabStatus(resps)
    \/ \E resps \in ServerRuns(OkOrDown(ProfileBodies)) :
          GetUserProfile(resps)
    \/ \E ce1 \in ClearEnvs, resps \in ServerRuns(OkOrDown({NoBody})), ce2 \in ClearEnvs :
          MenuClearTokens(ce1, resps, ce2)
    \/ \E e1 \in ReadEnvs, e2 \in ReadEnvs :
          Restart(e1, e2)
    \/ ReturnToCaller

Spec == Init /\ [][Next]_vars

\* The retry wrapper on its own: Init draws the server's answers to the three
\* possible attempts from every response (with two 2xx bodies that differ,
\* to tell the results of two attempts apart), and the call is made against
\* them.
InitRetry ==
    /\ access_token \in Tokens \cup {None}
    /\ refresh_token = None
    /\ token_expiry = None
    /\ current_user = None
    /\ algolab_authenticated = FALSE
    /\ use_keyring = TRUE
    /\ keyring = NoTokens
    /\ token_file = NoFile
    /\ pc = "idle"
    /\ wire = NoWire
    /\ ret = NoRet
    /\ inp \in [1..max_retries ->
                  AllResponses({NoBody, [NoBody EXCEPT !.user = 1]})]
    /\ last = Op("idle", FALSE, FALSE)
    /\ result = NoOut
    /\ poll = NoPoll
    /\ watchlists = DefaultWatchlists
    /\ config_file = NoConfigFile

NextRetry ==
    \/ \E m \in Methods, a \in BOOLEAN : Request(m, a, inp)
    \/ ReturnToCaller

SpecRetry == InitRetry /\ [][NextRetry]_vars

\* A server that gives every attempt of a call the same answer.
SteadyRuns(finals) == {Flaky(0, f) : f \in finals}

\* Longest answer to the OTP prompt that is tried.
MaxOtpLen == 5

\* login_flow from a fresh process, against every kind of login response.
\* Store faults tried in the flows: a working keyring, a failing keyring
\* with a working file, and a store that cannot be written at all; clear
\* faults tried: unlink works or fails.
NextLogin ==
    \/ \E confirm \in BOOLEAN, creds \in BOOLEAN,
          logout_resps \in SteadyRuns(OkOrDown({NoBody})), ce \in {c \in ClearEnvs : \A n \in TokenNames : c.kr_del[n]},
          login_resp \in FewResponses(LoginBodies), e \in {se \in StoreEnvs : se.f_read = se.f_write} :
          LoginFlow(confirm, creds, logout_resps, ce, login_resp, e, e)
    \/ ReturnToCaller

SpecLogin == Init /\ [][NextLogin]_vars

\* What one call of a broker endpoint may end in: a 2xx with one of the
\* bodies, a client error, a transport failure.
BrokerResponses(bodies) ==
    OkOrDown(bodies) \cup {HttpResponse(401, TRUE, NoBody)}

\* The broker flow, the status check and the menu handler that starts the
\* flow, in a process where login_flow logs in and out.
NextBroker ==
    \/ \E confirm \in BOOLEAN, ce \in {c \in ClearEnvs : \A n \in TokenNames : c.kr_del[n]},
          login_resp \in BrokerResponses(
              {b \in LoginBodies : b.accessToken # None /\ b.refreshToken # None
                                      /\ b.user # None}), e \in {se \in StoreEnvs : se.f_read = se.f_write} :
          LoginFlow(confirm, TRUE, Flaky(0, NetError), ce, login_resp, e, e)
    \/ \E creds \in BOOLEAN,
          login_resps \in SteadyRuns(BrokerResponses(BrokerLoginBodies)),
          otp_len \in 0..MaxOtpLen,
          verify_resps \in SteadyRuns(BrokerResponses(VerifyBodies)) :
          AlgolabAuthFlow(creds, login_resps, otp_len, verify_resps)
    \/ \E resps \in ServerRuns(FewResponses(StatusBodies)) :
          CheckAlgolabStatus(resps)
    \/ \E status_resps \in SteadyRuns(OkOrDown(StatusBodies)),
          confirm \in BOOLEAN, creds \in BOOLEAN,
          login_resps \in SteadyRuns(BrokerResponses(BrokerLoginBodies)),
          otp_len \in 0..MaxOtpLen,
          verify_resps \in SteadyRuns(BrokerResponses(VerifyBodies)) :
          HandleAlgolabConnection(status_resps, confirm, creds, login_resps,
                                  otp_len, verify_resps)
    \/ \E confirm \in BOOLEAN, creds \in BOOLEAN,
          login_resps \in SteadyRuns(BrokerResponses(BrokerLoginBodies)),
          otp_len \in 0..MaxOtpLen,
          verify_resps \in SteadyRuns(BrokerResponses(VerifyBodies)) :
          HandleBrokerOperations(confirm, creds, login_resps, otp_len, verify_resps)
    \/ LeaveBrokerMenu
    \/ ReturnToCaller

SpecBroker == Init /\ [][NextBroker]_vars

\* _handle_response on its own: Init draws one non-2xx response.
InitHandle ==
    /\ access_token = None
    /\ refresh_token = None
    /\ token_expiry = None
    /\ current_user = None
    /\ algolab_authenticated = FALSE
    /\ use_keyring = TRUE
    /\ keyring = NoTokens
    /\ token_file = NoFile
    /\ pc = "idle"
    /\ wire = NoWire
    /\ ret = NoRet
    /\ inp \in ErrorResponses
    /\ last = Op("idle", FALSE, FALSE)
    /\ result = NoOut
    /\ poll = NoPoll
    /\ watchlists = DefaultWatchlists
    /\ config_file = NoConfigFile

NextHandle ==
    \/ HandleErrorResponse(inp)
    \/ ReturnToCaller

SpecHandle == InitHandle /\ [][NextHandle]_vars

\* The two stream views, opened from a session with or without a token.
InitPoll ==
    /\ access_token \in Tokens \cup {None}
    /\ refresh_token = None
    /\ token_expiry = None
    /\ current_user = None
    /\ algolab_authenticated = FALSE
    /\ use_keyring = TRUE
    /\ keyring = NoTokens
    /\ token_file = NoFile
    /\ pc = "idle"
    /\ wire = NoWire
    /\ ret = NoRet
    /\ inp = <<>>
    /\ last = Op("idle", FALSE, FALSE)
    /\ result = NoOut
    /\ poll = NoPoll
    /\ watchlists = DefaultWatchlists
    /\ config_file = NoConfigFile

\* The `messages` of a stream response: the key is absent, the list is
\* empty, it holds rows, or it holds rows create_table cannot format.
NextPoll ==
    \/ \E status_resps \in SteadyRuns(OkOrDown([connected : Flags])),
          sub_resps \in SteadyRuns(OkOrDown({NoBody})) :
          OpenTickView(status_resps, sub_resps)
    \/ OpenTradeView
    \/ \E resps \in ServerRuns(
                        OkOrDown([messages : {"missing", "empty", "rows", "bad rows"}])
                           \cup {BadJson, HttpResponse(401, TRUE, NoBody)}),
          interrupt \in BOOLEAN :
          PollOnce(resps, interrupt)
    \/ \E interrupt \in BOOLEAN : ReportError(interrupt)
    \/ \E interrupt \in BOOLEAN : WakeUp(interrupt)
    \/ CloseView
    \/ ReturnToCaller

\* print_error and time.sleep return: a loop that is not interrupted goes on.
SpecPoll ==
    /\ InitPoll
    /\ [][NextPoll]_vars
    /\ WF_vars(ReportError(FALSE))
    /\ WF_vars(WakeUp(FALSE))

-----------------------------------------------------------------------------
(* BrokerManager: the tables of the stream views and of view_positions     *)

\* A value of a JSON object as data.get(key) sees it: the key is absent,
\* the value is null, a number (kept in tenths: 25 is 2.5) or a string
\* (kept as its characters).
Absent == [kind |-> "absent", n |-> 0, s |-> <<>>]
Null == [kind |-> "null", n |-> 0, s |-> <<>>]
Number(tenths) == [kind |-> "number", n |-> tenths, s |-> <<>>]
Text(chars) == [kind |-> "string", n |-> 0, s |-> chars]

DigitValue ==
    [c \in {"0", "1", "2", "3", "4", "5", "6", "7", "8", "9"} |->
        CASE c = "0" -> 0 [] c = "1" -> 1 [] c = "2" -> 2 [] c = "3" -> 3
          [] c = "4" -> 4 [] c = "5" -> 5 [] c = "6" -> 6 [] c = "7" -> 7
          [] c = "8" -> 8 [] c = "9" -> 9]

\* bool(v): None, 0, 0.0 and "" are false.
TruthyValue(v) ==
    \/ v.kind = "number" /\ v.n # 0
    \/ v.kind = "string" /\ v.s # <<>>

\* data.get(k1) or data.get(k2) or 0
FirstTruthy(data, k1, k2) ==
    IF TruthyValue(data[k1]) THEN data[k1]
    ELSE IF TruthyValue(data[k2]) THEN data[k2]
    ELSE Number(0)

\* The digits of an unsigned decimal literal read as an integer.
RECURSIVE DigitsValue(_)
DigitsValue(chars) ==
    IF chars = <<>> THEN 0
    ELSE 10 * DigitsValue(SubSeq(chars, 1, Len(chars) - 1))
            + DigitValue[chars[Len(chars)]]

\* How int() and float() read a string.  int(): an optional sign and
\* digits only.  float(): an optional sign, digits with at most one point
\* among them, one digit at least; n is its value in tenths (the integer
\* part and the first digit after the point).  Exponents, inf and nan are
\* not among the strings tried.
Parse(chars) ==
    LET signed == chars # <<>> /\ chars[1] \in {"-", "+"}
        u == IF signed THEN Tail(chars) ELSE chars
        points == {i \in 1..Len(u) : u[i] = "."}
        p == IF points = {} THEN Len(u) + 1 ELSE CHOOSE i \in points : TRUE
        digits(t) == \A i \in 1..Len(t) : t[i] \in DOMAIN DigitValue
        is_float == /\ Cardinality(points) <= 1
                    /\ digits(SubSeq(u, 1, p - 1))
                    /\ digits(SubSeq(u, p + 1, Len(u)))
                    /\ Len(u) - Cardinality(points) >= 1
    IN  [int |-> u # <<>> /\ digits(u),
         float |-> is_float,
         n |-> IF is_float
               THEN (IF signed /\ chars[1] = "-" THEN -1 ELSE 1)
                       * (10 * DigitsValue(SubSeq(u, 1, p - 1))
                            + (IF p < Len(u) THEN DigitValue[u[p + 1]] ELSE 0))
               ELSE 0]

\* float(v): whether it returns, and what
ToFloat(v) ==
    IF v.kind = "number" THEN [ok |-> TRUE, v |-> v]
    ELSE IF v.kind = "string" /\ Parse(v.s).float
    THEN [ok |-> TRUE, v |-> Number(Parse(v.s).n)]
    ELSE [ok |-> FALSE, v |-> v]

\* int(v): a float is truncated towards zero
ToInt(v) ==
    IF v.kind = "number"
    THEN [ok |-> TRUE,
          v |-> IF v.n >= 0 THEN Number(10 * (v.n \div 10))
                ELSE Number(-10 * ((-v.n) \div 10))]
    ELSE IF v.kind = "string" /\ Parse(v.s).int
    THEN [ok |-> TRUE, v |-> Number(Parse(v.s).n)]
    ELSE [ok |-> FALSE, v |-> v]

\* The five assignments before the try block of the tick table.
TickRaw(data) ==
    [last_price |-> FirstTruthy(data, "Price", "lastPrice"),
     change_pct |-> FirstTruthy(data, "changePercent", "change"),
     volume |-> FirstTruthy(data, "volume", "totalVolume"),
     bid |-> FirstTruthy(data, "bid", "bidPrice"),
     ask |-> FirstTruthy(data, "ask", "askPrice")]

\* The try block: the conversions run in order, and the first that raises
\* ValueError or TypeError ends the block (`pass`), so that field and the
\* ones after it keep what they held.
TickConverted(raw) ==
    LET order == <<"last_price", "change_pct", "volume", "bid", "ask">>
        conv(f) == IF f = "volume" THEN ToInt(raw[f]) ELSE ToFloat(raw[f])
    IN  [f \in DOMAIN raw |->
            IF \A j \in 1..(CHOOSE i \in 1..Len(order) : order[i] = f) :
                  conv(order[j]).ok
            THEN conv(f).v
            ELSE raw[f]]

\* A cell of a row: the number that is formatted, or "-" for a falsy one.
CellOrDash(v) ==
    IF TruthyValue(v) THEN [text |-> "number", n |-> v.n] ELSE [text |-> "-", n |-> 0]

\* One pass of the loop of create_table in view_realtime_ticks.  After the
\* try block `change_pct >= 0`, the `+.2f` format, format_currency and
\* `{volume:,}` all raise on a string.
TickRow(data) ==
    LET fields == TickConverted(TickRaw(data)) IN
    IF \E f \in DOMAIN fields : fields[f].kind # "number" THEN [kind |-> "raise"]
    ELSE [kind |-> "row",
          last_price |-> [text |-> "number", n |-> fields.last_price.n],
          change_pct |-> [text |-> "number", n |-> fields.change_pct.n],
          change_color |-> IF fields.change_pct.n >= 0 THEN "green" ELSE "red",
          volume |-> CellOrDash(fields.volume),
          bid |-> CellOrDash(fields.bid),
          ask |-> CellOrDash(fields.ask)]

\* One pass of the loop of create_table in view_trade_stream.  price and
\* quantity are data.get(key, 0), used as they come: format_currency raises
\* on None and on a string, `{quantity:,}` on a string, and None as
\* quantity shows "-".  The amount is in hundredths.
TradeRow(data) ==
    LET price == IF data["price"] = Absent THEN Number(0) ELSE data["price"]
        quantity == IF data["quantity"] = Absent THEN Number(0) ELSE data["quantity"]
    IN  IF price.kind # "number" \/ quantity.kind = "string" THEN [kind |-> "raise"]
        ELSE [kind |-> "row",
              price |-> [text |-> "number", n |-> price.n],
              quantity |-> CellOrDash(quantity),
              amount |-> CellOrDash(Number(price.n * quantity.n))]

\* create_table(messages): a row per message; an exception of a row leaves
\* the function, and no table is returned.
CreateTable(view, messages) ==
    LET row(m) == IF view = "ticks" THEN TickRow(m) ELSE TradeRow(m) IN
    IF \E i \in 1..Len(messages) : row(messages[i]).kind = "raise"
    THEN [kind |-> "raise", rows |-> <<>>]
    ELSE [kind |-> "table", rows |-> [i \in 1..Len(messages) |-> row(messages[i])]]

\* A stream view calls create_table on the messages of a poll (inp) and
\* hands the table to live.update.
RenderBatch ==
    /\ pc = "idle"
    /\ inp.view \in {"ticks", "trades"}
    /\ pc' = "done"
    /\ result' = CreateTable(inp.view, inp.rows)
    /\ last' = Op("create_table", result'.kind = "raise", FALSE)
    /\ UNCHANGED <<access_token, refresh_token, token_expiry, use_keyring,
                   keyring, token_file, current_user, algolab_authenticated,
                   wire, ret, inp, poll, watchlists, config_file>>

\* try: float(str(v)) except (ValueError, TypeError): 0.0.  str() of a
\* number reads back as that number, str(None) is "None".
FloatOrZero(v) ==
    IF v.kind \in {"number", "string"} /\ ToFloat(v).ok THEN ToFloat(v).v ELSE Number(0)

\* The fields of a position that are read under several keys, in the order
\* the keys are tried.
PositionAliasesQuantityFirst ==
    [symbol |-> <<"code", "symbol">>,
     quantity |-> <<"quantity", "totalstock">>,
     avg_price |-> <<"maliyet", "cost", "averagePrice">>,
     last_price |-> <<"unitprice", "lastPrice">>,
     pnl |-> <<"profit", "profitLoss">>]
PositionAliases ==
    [symbol |-> <<"code", "symbol">>,
     quantity |-> <<"totalstock", "quantity">>,
     avg_price |-> <<"maliyet", "cost", "averagePrice">>,
     last_price |-> <<"unitprice", "lastPrice">>,
     pnl |-> <<"profit", "profitLoss">>]

AliasKeys(f) == {PositionAliases[f][i] : i \in 1..Len(PositionAliases[f])}

\* pos.get(k1) or ... or pos.get(kn, default)
RECURSIVE Resolve(_, _, _)
Resolve(pos, keys, default) ==
    IF Len(keys) = 1
    THEN IF pos[keys[1]] = Absent THEN default ELSE pos[keys[1]]
    ELSE IF TruthyValue(pos[keys[1]]) THEN pos[keys[1]]
    ELSE Resolve(pos, Tail(keys), default)

\* What one pass of the loop of view_positions computes from a row: the
\* symbol, the numbers (quantity through int(float(str(...)))), and
\* pnl_pct, taken from the row or (pnl / (avg_price * quantity)) * 100, as
\* a fraction.
NormalizePosition(pos) ==
    LET number(f) == FloatOrZero(Resolve(pos, PositionAliases[f], Text(<<"0">>)))
        quantity == ToInt(number("quantity")).v.n
        given == pos["profitLossPercent"]
    IN  [symbol |-> Resolve(pos, PositionAliases.symbol, Text(<<"N", "/", "A">>)),
         quantity |-> quantity,
         avg_price |-> number("avg_price").n,
         last_price |-> number("last_price").n,
         pnl |-> number("pnl").n,
         pnl_pct |->
            IF given.kind \in {"absent", "null"} /\ number("avg_price").n > 0
            THEN IF quantity > 0
                 THEN [num |-> 1000 * number("pnl").n,
                       den |-> number("avg_price").n * quantity]
                 ELSE [num |-> 0, den |-> 1]
            ELSE IF TruthyValue(given) THEN [num |-> FloatOrZero(given).n, den |-> 10]
            ELSE [num |-> 0, den |-> 1],
         pnl_color |-> IF number("pnl").n >= 0 THEN "green" ELSE "red"]

IsSummaryRowSymbolOnly(pos) == NormalizePosition(pos).symbol = Text(<<"-">>)

\* symbol == "-" or pos.get("type") == "0" or pos.get("explanation") == "total"
IsSummaryRow(pos) ==
    \/ NormalizePosition(pos).symbol = Text(<<"-">>)
    \/ pos["type"] = Text(<<"0">>)
    \/ pos["explanation"] = Text(<<"t", "o", "t", "a", "l">>)

\* total_pnl += pnl over the rows that are not skipped
RECURSIVE TotalPnl(_)
TotalPnl(positions) ==
    IF positions = <<>> THEN 0
    ELSE IF IsSummaryRow(Head(positions)) THEN TotalPnl(Tail(positions))
    ELSE NormalizePosition(Head(positions)).pnl + TotalPnl(Tail(positions))

\* What view_positions prints for a response (a list, {"content": list},
\* {"content": {"positions": list}}, or anything else, which counts as no
\* position): the info line for no positions, or the table of the rows
\* that are not skipped and the total; `normalized` keeps what the loop
\* computed for every row, skipped or not.
PositionsView(response) ==
    LET positions == IF response.shape = "other" THEN <<>> ELSE response.rows
        shown == SelectSeq(positions, LAMBDA pos : ~IsSummaryRow(pos))
    IN  IF positions = <<>>
        THEN [kind |-> "info", rows |-> <<>>, normalized |-> <<>>, total_pnl |-> 0]
        ELSE [kind |-> "table",
              rows |-> [i \in 1..Len(shown) |-> NormalizePosition(shown[i])],
              normalized |-> [i \in 1..Len(positions) |-> NormalizePosition(positions[i])],
              total_pnl |-> TotalPnl(positions)]

\* view_positions on the response inp
ViewPositions ==
    /\ pc = "idle"
    /\ inp.view = "positions"
    /\ pc' = "done"
    /\ result' = PositionsView(inp)
    /\ last' = Op("view_positions", FALSE, FALSE)
    /\ UNCHANGED <<access_token, refresh_token, token_expiry, use_keyring,
                   keyring, token_file, current_user, algolab_authenticated,
                   wire, ret, inp, poll, watchlists, config_file>>

\* Values tried under a numeric key of a message or of a position.
ValuesTried ==
    {Absent, Null, Number(0), Number(25), Number(-15), Number(70),
     Text(<<>>), Text(<<"7">>), Text(<<"2", ".", "5">>), Text(<<"-", "3">>),
     Text(<<"x">>), Text(<<"1", "x">>)}

\* Batches of a stream view: of one message, and of a message after a
\* plain one.  The ticks differ in up to two keys from a tick that holds
\* every field under its first key or from an empty one; the trades hold
\* any two values.
BatchesTried ==
    LET keys == {"Price", "lastPrice", "changePercent", "change", "volume",
                 "totalVolume", "bid", "bidPrice", "ask", "askPrice"}
        plain_tick ==
            [k \in keys |->
                IF k = "Price" THEN Number(105)
                ELSE IF k = "changePercent" THEN Number(-5)
                ELSE IF k = "volume" THEN Number(1000)
                ELSE IF k = "bid" THEN Number(104)
                ELSE IF k = "ask" THEN Number(106)
                ELSE Absent]
        ticks ==
            {[k \in keys |-> IF k = k1 THEN v1 ELSE IF k = k2 THEN v2 ELSE base[k]] :
                k1 \in keys, k2 \in keys, v1 \in ValuesTried, v2 \in ValuesTried,
                base \in {plain_tick, [k \in keys |-> Absent]}}
        trades == [{"price", "quantity"} -> ValuesTried]
        plain_trade == [k \in {"price", "quantity"} |->
                           IF k = "price" THEN Number(105) ELSE Number(20)]
    IN  {[view |-> "ticks", shape |-> "list", rows |-> <<m>>] : m \in ticks}
        \cup {[view |-> "ticks", shape |-> "list", rows |-> <<plain_tick, m>>] : m \in ticks}
        \cup {[view |-> "trades", shape |-> "list", rows |-> <<m>>] : m \in trades}
        \cup {[view |-> "trades", shape |-> "list", rows |-> <<plain_trade, m>>] : m \in trades}

\* A row of positions as AlgoLab sends it.
PlainPosition ==
    [k \in UNION {AliasKeys(f) : f \in DOMAIN PositionAliases}
             \cup {"profitLossPercent", "type", "explanation"} |->
        IF k = "code" THEN Text(<<"A">>)
        ELSE IF k = "totalstock" THEN Text(<<"1", "0", ".", "0">>)
        ELSE IF k = "maliyet" THEN Number(25)
        ELSE IF k = "unitprice" THEN Number(30)
        ELSE IF k = "profit" THEN Number(50)
        ELSE IF k = "type" THEN Text(<<"1">>)
        ELSE Absent]

\* Pairs of rows that differ in the keys of field f: the first holds values
\* under up to two of them, the second one of these values under one key.
\* Numbers and texts for the numeric fields, names for the symbol.
AliasPairsOf(f) ==
    LET values ==
            IF f = "symbol"
            THEN {Absent, Null, Text(<<>>), Text(<<"A">>), Text(<<"B">>), Text(<<"-">>)}
            ELSE {Absent, Null, Number(0), Number(100), Number(-15),
                  Text(<<>>), Text(<<"7">>), Text(<<"2", ".", "5">>), Text(<<"x">>)}
        row(k1, v1, k2, v2) ==
            [k \in DOMAIN PlainPosition |->
                IF k = k1 THEN v1
                ELSE IF k = k2 THEN v2
                ELSE IF k \in AliasKeys(f) THEN Absent
                ELSE PlainPosition[k]]
    IN  {<<row(k1, v1, k2, v2),
           row(k3, IF first THEN v1 ELSE v2, k3, IF first THEN v1 ELSE v2)>> :
            k1 \in AliasKeys(f), k2 \in AliasKeys(f), k3 \in AliasKeys(f),
            v1 \in values, v2 \in values, first \in BOOLEAN}

\* Longest list of rows tried.
MaxRows == 3

\* Responses of GET /api/v1/broker/positions: the pairs above, and under
\* every shape the lists of up to MaxRows rows out of two positions, a
\* total under each of the three markers, a row whose "-" stands under the
\* second key, and a row whose type is the number 0.
ResponsesTried ==
    LET position(code, profit, type, explanation) ==
            [PlainPosition EXCEPT !["code"] = code, !["profit"] = profit,
                                  !["type"] = type, !["explanation"] = explanation]
        rows ==
            {position(Text(<<"A">>), Number(50), Text(<<"1">>), Absent),
             position(Text(<<"B">>), Number(-15), Absent, Text(<<>>)),
             position(Text(<<"-">>), Number(35), Text(<<"1">>), Absent),
             position(Text(<<"A">>), Number(35), Text(<<"0">>), Absent),
             position(Text(<<"B">>), Number(35), Text(<<"1">>),
                      Text(<<"t", "o", "t", "a", "l">>)),
             [position(Null, Number(35), Absent, Absent)
                 EXCEPT !["symbol"] = Text(<<"-">>)],
             position(Text(<<"A">>), Number(20), Number(0), Absent)}
    IN  {[view |-> "positions", shape |-> "list", rows |-> pair] :
            pair \in UNION {AliasPairsOf(f) : f \in DOMAIN PositionAliases}}
        \cup [view : {"positions"},
              shape : {"list", "content list", "content positions", "other"},
              rows : UNION {[1..n -> rows] : n \in 0..MaxRows}]

\* The tables on their own: Init draws the messages of a poll or the
\* response of the positions query.
InitViews ==
    /\ access_token = None
    /\ refresh_token = None
    /\ token_expiry = None
    /\ current_user = None
    /\ algolab_authenticated = FALSE
    /\ use_keyring = TRUE
    /\ keyring = NoTokens
    /\ token_file = NoFile
    /\ pc = "idle"
    /\ wire = NoWire
    /\ ret = NoRet
    /\ inp \in BatchesTried \cup ResponsesTried
    /\ last = Op("idle", FALSE, FALSE)
    /\ result = NoOut
    /\ poll = NoPoll
    /\ watchlists = DefaultWatchlists
    /\ config_file = NoConfigFile

NextViews ==
    \/ RenderBatch
    \/ ViewPositions
    \/ ReturnToCaller

SpecViews == InitViews /\ [][NextViews]_vars

-----------------------------------------------------------------------------
(* The watchlist manager on its own                                        *)

\* Symbols as typed: "akbnk", "AKBNK", " Thyao "; list names: "default",
\* "tech", and " tech" for a new list; every way save may end.
NextWatchlist ==
    \/ \E s \in {<<"akbnk">>, <<"AKBNK">>, <<" ", "Thyao", " ">>},
          n \in {<<"default">>, <<"tech">>},
          o \in {"saved", "not opened", "not written"} :
          add_symbol(s, n, o)
    \/ \E s \in {<<"akbnk">>, <<"AKBNK">>, <<" ", "Thyao", " ">>},
          n \in {<<"default">>, <<"tech">>},
          o \in {"saved", "not opened", "not written"} :
          remove_symbol(s, n, o)
    \/ \E n \in {<<"tech">>, <<" ", "tech">>},
          o \in {"saved", "not opened", "not written"} :
          create_list(n, o)
    \/ \E n \in {<<"default">>, <<"tech">>},
          o \in {"saved", "not opened", "not written"} :
          delete_list(n, o)
    \/ \E old \in {<<"default">>, <<"tech">>}, new \in {<<"default">>, <<"tech">>},
          o \in {"saved", "not opened", "not written"} :
          rename_list(old, new, o)
    \/ NewWatchlist
    \/ ReturnToCaller

SpecWatchlist == Init /\ [][NextWatchlist]_vars

-----------------------------------------------------------------------------
(* Properties of the retry wrapper (SpecRetry)                             *)

\* A wrapped call has just ended; inp holds the server's answers.
Called == pc = "done" /\ last.op = "request"

RetriedStatuses == {500, 502, 503, 504, 429}
OtherClientStatuses == {s \in ErrStatuses : 400 <= s /\ s < 500 /\ s # 429}

AllAttemptsRaise(s) ==
    \A i \in 1..max_retries : inp[i] = HttpResponse(s, TRUE, NoBody)

\* C1: when every attempt of a wrapped call raises APIError(s) with s in
\* {500, 502, 503, 504, 429}, the underlying call is made exactly 3 times and
\* the error is then raised; for any other 4xx status it is made exactly once
\* and the error is raised without a sleep.
C1_RetryAttemptCount ==
    Called =>
      /\ \A s \in RetriedStatuses :
            AllAttemptsRaise(s) =>
              /\ ret.calls = 3
              /\ ret.kind = "raise"
              /\ ret.exc.type = "APIError"
              /\ ret.exc.status = s
      /\ \A s \in OtherClientStatuses :
            AllAttemptsRaise(s) =>
              /\ ret.calls = 1
              /\ ret.sleeps = <<>>
              /\ ret.kind = "raise"
              /\ ret.exc = APIError(s, 0)

C1_Witness == Called /\ AllAttemptsRaise(429) /\ ret.calls = 3 /\ ret.kind = "raise"

\* C2: the wrapper makes a second or third attempt only after an APIError
\* whose status is in {500, 502, 503, 504, 429}; an APIError with any other
\* status or with no status is raised after the first attempt.
C2_RetryOnlyListedStatuses ==
    Called =>
      \A i \in 1..max_retries :
        ret.calls > i =>
          /\ inp[i].kind = "http"
          /\ inp[i].status \in RetriedStatuses

\* C3: when all 3 attempts fail with retryable APIErrors, the wrapper raises
\* the error of the third attempt: it does not return, and it does not raise
\* the error of an earlier attempt.
C3_RetryExhaustion ==
    (Called /\ \A i \in 1..max_retries :
                 inp[i].kind = "http" /\ inp[i].status \in RetriedStatuses)
      => /\ ret.kind = "raise"
         /\ ret.exc = APIError(inp[3].status, 2)

C3_Witness ==
    /\ Called
    /\ \A i \in 1..max_retries : inp[i].kind = "http" /\ inp[i].status \in RetriedStatuses
    /\ inp[1].status # inp[3].status
    /\ inp[2].status # inp[3].status
    /\ ret.kind = "raise"
    /\ ret.calls = 3

\* C4: an exception that is not an APIError, raised on any attempt, reaches
\* the caller at once: no attempt follows it and no sleep follows it.
C4_OtherExceptionPropagates ==
    Called =>
      \A i \in 1..max_retries :
        inp[i] = NetError =>
          /\ ret.calls <= i
          /\ ret.calls = i =>
                /\ ret.kind = "raise"
                /\ ret.exc = OtherException(i - 1)
                /\ Len(ret.sleeps) = i - 1

C4_Witness ==
    /\ Called
    /\ inp[2] = NetError
    /\ ret.calls = 2
    /\ ret.exc = OtherException(1)
    /\ Len(ret.sleeps) = 1

-----------------------------------------------------------------------------
(* Properties of _handle_response (SpecHandle)                             *)

\* _handle_response has just raised for the non-2xx response inp.
Handled == pc = "done" /\ last.op = "_handle_response"

\* C12 as stated: the APIError of a non-2xx response has the HTTP status as
\* status_code, and as message the body's `message` field if present, else
\* its `error` field if present, else the raw body if non-empty, else
\* "HTTP <code>".
C12_MessageOrder ==
    Handled =>
      /\ result.returned.status_code = inp.status
      /\ result.returned.message =
            IF inp.body.has_message THEN "the message"
            ELSE IF inp.body.has_error THEN "the error"
            ELSE IF inp.body.text # "" THEN inp.body.text
            ELSE GenericMessage(inp.status)

\* C12: the APIError of a non-2xx response has the HTTP status as
\* status_code; its message is the `message` field of a JSON object body
\* if present, else its `error` field if present; a JSON object or array
\* with neither gives "HTTP <code>"; only a body that is not JSON or cannot
\* be searched for the keys gives the raw body if non-empty, else
\* "HTTP <code>".
C12_MessageOrderJsonFirst ==
    Handled =>
      /\ result.returned.status_code = inp.status
      /\ inp.body.has_message => result.returned.message = "the message"
      /\ (~inp.body.has_message /\ inp.body.has_error)
            => result.returned.message = "the error"
      /\ (inp.body.json \in {"object", "array"}
             /\ ~inp.body.has_message /\ ~inp.body.has_error)
            => result.returned.message = GenericMessage(inp.status)
      /\ (inp.body.json \in {"invalid", "number"} /\ inp.body.text # "")
            => result.returned.message = inp.body.text
      /\ (inp.body.json = "invalid" /\ inp.body.text = "")
            => result.returned.message = GenericMessage(inp.status)

C12_Witness ==
    /\ Handled
    /\ inp.body.json = "object"
    /\ ~inp.body.has_message
    /\ ~inp.body.has_error
    /\ inp.body.text # ""
    /\ inp.status = 401
    /\ result.returned.message = "HTTP 401"

-----------------------------------------------------------------------------
(* Properties of the session and the token store (Spec)                    *)

\* C5: whenever get/post/put/delete sends a request carrying
\* Authorization: Bearer T, the access token persisted in the Token Store
\* is T.
C5_WriteBeforeUse ==
    (wire.method \in Methods /\ wire.bearer # None) => wire.stored = wire.bearer

\* Faults of the keyring alone: the file fallback itself works.
FileWorks(e) == e.f_read /\ e.f_write

\* C6: store_token(name, X) followed by get_stored_token(name) returns X,
\* with a working keyring and with keyring operations that fail over to the
\* file.
C6_TokenRoundTrip ==
    \A n \in SessionTokenNames, x \in Tokens :
      \A e1 \in {e \in StoreEnvs : e.kr_set \/ FileWorks(e)},
         e2 \in {e \in ReadEnvs : e.f_read} :
        LET st == StoreToken(keyring, token_file, n, x, e1)
        IN  GetStoredToken(st.kr, st.tf, n, e2) = x

\* C7: after APIClient.logout() the access token, the refresh token and the
\* expiry are absent and is_authenticated() is false, whatever the POST to
\* /api/v1/auth/logout did.
C7_LogoutClearsSession ==
    (pc = "done" /\ last.op \in {"api_logout", "auth_logout"})
      => /\ access_token = None
         /\ refresh_token = None
         /\ token_expiry = None
         /\ ~IsAuthenticated(access_token)

C7_Witness ==
    /\ pc = "done"
    /\ last.op = "api_logout"
    /\ wire.token # None
    /\ ret.kind = "raise"
    /\ ret.exc.type = "Exception"
    /\ access_token = None

\* C8: AuthenticationManager.logout() never raises and leaves
\* is_logged_in() false, algolab_authenticated false and current_user None,
\* also when the remote call or the deletion of the stored tokens fails.
C8_AuthLogoutAlwaysLocal ==
    (pc = "done" /\ last.op = "auth_logout")
      => /\ ~last.raised
         /\ ~IsAuthenticated(access_token)
         /\ ~algolab_authenticated
         /\ current_user = None

NothingStored ==
    \A n \in SessionTokenNames, e \in ReadEnvs :
      GetStoredToken(keyring, token_file, n, e) = None

C10_AlwaysBearer ==
    (wire.method \in Methods /\ wire.authenticated)
      => wire.bearer # None /\ wire.bearer = wire.token

-----------------------------------------------------------------------------
(* Properties of the platform login (SpecLogin)                            *)

\* login_flow has just ended.
LoginFlowEnded == pc = "done" /\ last.op = "login_flow"

\* The flow called APIClient.login (its last request).
LoginRequested ==
    /\ result.calls # <<>>
    /\ result.calls[Len(result.calls)].path = "/api/v1/auth/login"

LoginRequest == result.calls[Len(result.calls)]

\* C17: when the login request of login_flow fails with an APIError, the
\* flow returns False, the session fields and the Token Store are as the
\* request found them (no token set or written), and is_logged_in() is
\* false.
C17_FailedLoginStaysLoggedOut ==
    (LoginFlowEnded /\ LoginRequested /\ LoginRequest.ret.kind = "raise"
       /\ IsAPIError(LoginRequest.ret.exc)) =>
      /\ result.returned = FALSE
      /\ Session = LoginRequest.sess
      /\ keyring = LoginRequest.kr
      /\ token_file = LoginRequest.tf
      /\ access_token = None
      /\ ~IsLoggedIn(access_token)

C17_Witness ==
    /\ LoginFlowEnded
    /\ Len(result.calls) = 2
    /\ result.calls[1].sess.access_token # None
    /\ LoginRequested
    /\ LoginRequest.ret.kind = "raise"
    /\ LoginRequest.ret.exc.status = 401
    /\ result.returned = FALSE
    /\ ~IsLoggedIn(access_token)

\* C18: whenever login_flow returns True, is_logged_in() is true afterwards,
\* for every 2xx login response.
C18_LoginTrueMeansLoggedIn ==
    (LoginFlowEnded /\ ~last.raised /\ result.returned) => IsLoggedIn(access_token)

-----------------------------------------------------------------------------
(* Properties of the broker authentication (SpecBroker)                    *)

\* algolab_auth_flow has just ended, called directly or from the menu.
BrokerFlowEnded == pc = "done" /\ result.flow = "algolab_auth_flow"

\* The flow posted to the verify-otp endpoint.
VerifySent ==
    \E i \in 1..Len(result.calls) :
      result.calls[i].path = "/api/v1/broker/auth/verify-otp"

\* ... and the POST returned a body (the flow's last request).
VerifyReturned ==
    VerifySent /\ result.calls[Len(result.calls)].ret.kind = "return"

VerifyBody == result.calls[Len(result.calls)].ret.value

\* C13: when the verify-otp response lacks a truthy `authenticated` or a
\* truthy `success`, algolab_auth_flow returns False and leaves
\* algolab_authenticated as it was; it returns True after a verify-otp
\* response only if both flags are truthy.
C13_OtpNeedsBothFlags ==
    (BrokerFlowEnded /\ VerifyReturned) =>
      /\ result.returned =>
            (Truthy(VerifyBody.authenticated) /\ Truthy(VerifyBody.success))
      /\ ~(Truthy(VerifyBody.authenticated) /\ Truthy(VerifyBody.success)) =>
            /\ result.returned = FALSE
            /\ algolab_authenticated = result.algolab

C13_Witness ==
    /\ BrokerFlowEnded
    /\ VerifyReturned
    /\ VerifyBody.authenticated = "true"
    /\ VerifyBody.success = "false"
    /\ result.returned = FALSE
    /\ ~algolab_authenticated

\* C14: an OTP that is empty or shorter than 4 characters sends no POST to
\* /api/v1/broker/auth/verify-otp, makes algolab_auth_flow return False and
\* leaves algolab_authenticated as it was.
C14_ShortOtpRejected ==
    (BrokerFlowEnded /\ result.otp.asked /\ result.otp.len < MinOtpLen) =>
      /\ ~VerifySent
      /\ result.returned = FALSE
      /\ algolab_authenticated = result.algolab

C14_Witness ==
    /\ BrokerFlowEnded
    /\ result.otp.asked
    /\ result.otp.len = MinOtpLen - 1
    /\ Len(result.calls) = 1
    /\ result.returned = FALSE
    /\ ~algolab_authenticated

\* C15: algolab_auth_flow turns algolab_authenticated from false to true
\* only after it sent a verify-otp request whose response had both
\* `authenticated` and `success` truthy, whatever the broker-login response
\* was.
C15_AuthenticatedOnlyAfterOtp ==
    (BrokerFlowEnded /\ ~result.algolab /\ algolab_authenticated) =>
      /\ VerifyReturned
      /\ Truthy(VerifyBody.authenticated)
      /\ Truthy(VerifyBody.success)

\* C16: whenever algolab_auth_flow returns False, algolab_authenticated is
\* false afterwards, also when it was true when the flow started.
C16_FailureResetsBrokerState ==
    (BrokerFlowEnded /\ result.returned = FALSE) => ~algolab_authenticated

\* check_algolab_status has just ended.
StatusChecked == pc = "done" /\ last.op = "check_algolab_status"

\* C19 as stated: check_algolab_status never raises, and for every outcome
\* of the GET, a response without the `authenticated` key included, the
\* mapping it returns has a definite `authenticated` value, false on any
\* error, and algolab_authenticated equals that value.
C19_StatusDefinite ==
    StatusChecked =>
      /\ ~last.raised
      /\ result.returned.authenticated \in {"true", "false"}
      /\ ret.kind = "raise" => result.returned.authenticated = "false"
      /\ algolab_authenticated = (result.returned.authenticated = "true")

\* C19: check_algolab_status never raises; on any error it returns
\* {"authenticated": False}; algolab_authenticated afterwards is definite,
\* false on any error and when the response has no `authenticated` key, and
\* equal to the truth of the returned mapping's `authenticated`; the mapping
\* returned for a response without the key is that response, without it.
C19_StatusFailClosed ==
    StatusChecked =>
      /\ ~last.raised
      /\ algolab_authenticated \in BOOLEAN
      /\ ret.kind = "raise" =>
            /\ result.returned = [authenticated |-> "false"]
            /\ ~algolab_authenticated
      /\ algolab_authenticated = Truthy(result.returned.authenticated)
      /\ (ret.kind = "return" /\ ret.value.authenticated = "missing") =>
            /\ result.returned.authenticated = "missing"
            /\ ~algolab_authenticated

C19_Witness ==
    /\ StatusChecked
    /\ ret.kind = "raise"
    /\ ret.exc = APIError(503, 2)
    /\ result.algolab
    /\ ~algolab_authenticated
    /\ result.returned.authenticated = "false"

-----------------------------------------------------------------------------
(* Properties of the polling loops (SpecPoll)                              *)

\* What a step of a polling loop may do, by where the loop stands.
LoopStepAllowed ==
    /\ (poll.at # "closed" /\ poll'.at = "closed")
          => poll'.left_by = "KeyboardInterrupt"
    /\ (poll.at = "poll" /\ poll'.at # "closed" /\ poll'.error # "none")
          => poll'.at = "handler" /\ ~poll'.reported
    /\ (poll.at = "handler" /\ poll'.at # "closed")
          => /\ poll'.at = "sleep"
             /\ poll'.reported
             /\ poll'.slept = ErrorSleep
             /\ ErrorSleep > PollSleep
    /\ (poll.at = "sleep" /\ poll'.at # "closed") => poll'.at = "poll"

C21_NoDataWarningShown ==
    (poll.view \in Views /\ poll.consecutive_empty >= 10)
        => /\ poll.shown = "waiting, no data warning"
           /\ poll.at # "closed" \/ poll.left_by = "KeyboardInterrupt"

-----------------------------------------------------------------------------
(* Properties of the stream tables (SpecViews)                             *)

\* A batch has just been given to create_table.
Rendered == pc = "done" /\ last.op = "create_table"

\* The number a field of a tick stands for: the value of the first of its
\* keys that holds something, 0 when float() cannot read it.
NumberOrZero(v) == IF ToFloat(v).ok THEN ToFloat(v).v.n ELSE 0

\* C22: for every tick message the row is built without raising, a field
\* that is absent or is not a number is shown as 0 and the other fields
\* show their numbers; the same for the price of a trade.
C22_RowsNeverRaise ==
    Rendered =>
        /\ result.kind = "table"
        /\ \A i \in 1..Len(inp.rows) :
              IF inp.view = "ticks"
              THEN \A f \in {"last_price", "change_pct", "bid", "ask"} :
                      result.rows[i][f].n
                         = NumberOrZero(TickRaw(inp.rows[i])[f])
              ELSE result.rows[i].price.n
                      = NumberOrZero(IF inp.rows[i]["price"] = Absent
                                   THEN Number(0) ELSE inp.rows[i]["price"])

-----------------------------------------------------------------------------
(* Properties of view_positions (SpecViews)                                *)

PositionsViewed == pc = "done" /\ last.op = "view_positions"

\* The order of resolution the property names: code/symbol,
\* totalstock/quantity, maliyet/cost/averagePrice, unitprice/lastPrice,
\* profit/profitLoss.
ResolutionOrder ==
    [symbol |-> <<"code", "symbol">>,
     quantity |-> <<"totalstock", "quantity">>,
     avg_price |-> <<"maliyet", "cost", "averagePrice">>,
     last_price |-> <<"unitprice", "lastPrice">>,
     pnl |-> <<"profit", "profitLoss">>]

\* The keys of field f under which a row holds something.
PresentKeys(pos, f) == {k \in AliasKeys(f) : pos[k].kind # "absent"}

\* Two rows carry the same values under possibly different keys: they agree
\* outside the aliased fields, and of every aliased field each holds one
\* key, with the same value.
SameUnderAliases(r1, r2) ==
    /\ \A k \in {"profitLossPercent", "type", "explanation"} : r1[k] = r2[k]
    /\ \A f \in DOMAIN ResolutionOrder :
          \E k1 \in AliasKeys(f), k2 \in AliasKeys(f) :
             /\ PresentKeys(r1, f) = {k1}
             /\ PresentKeys(r2, f) = {k2}
             /\ r1[k1] = r2[k2]

\* The first key of field f, in that order, that satisfies P.
FirstKey(pos, f, P(_)) ==
    ResolutionOrder[f][CHOOSE i \in 1..Len(ResolutionOrder[f]) :
        /\ P(pos[ResolutionOrder[f][i]])
        /\ \A j \in 1..(i - 1) : ~P(pos[ResolutionOrder[f][j]])]

\* The row with only key `key` of field f kept.
Only(pos, f, key) ==
    [k \in DOMAIN pos |-> IF k \in AliasKeys(f) /\ k # key THEN Absent ELSE pos[k]]

IsPresent(v) == v.kind # "absent"

Sentinel(i) ==
    \/ result.normalized[i].symbol = Text(<<"-">>)
    \/ inp.rows[i]["type"] = Text(<<"0">>)
    \/ inp.rows[i]["explanation"] = Text(<<"t", "o", "t", "a", "l">>)

\* The profit/loss of the first n raw rows that are not summary rows.
RECURSIVE PnlOfPositions(_)
PnlOfPositions(n) ==
    IF n = 0 THEN 0
    ELSE PnlOfPositions(n - 1)
            + (IF Sentinel(n) THEN 0 ELSE result.normalized[n].pnl)

-----------------------------------------------------------------------------
(* Properties of the watchlist manager (SpecWatchlist)                     *)

\* A step in which method `name` is called and returns.
WatchlistStep(name) == pc = "idle" /\ pc' = "done" /\ last'.op = name

WatchlistReturned(name) == pc = "done" /\ last.op = name

\* The symbols of list n before the step (none when there is no such list).
SymbolsOf(mapping, n) == IF n \in DOMAIN mapping THEN mapping[n] ELSE <<>>

Elements(list) == {list[i] : i \in 1..Len(list)}

\* add_symbol(inp'[1], inp'[2]) is a no-op returning False on a symbol
\* that, upper-cased and stripped, is in the list; otherwise it appends the
\* symbol in that form once, returns True and leaves the other lists alone.
AddSymbolStep ==
    IF Strip(Upper(inp'[1])) \in Elements(SymbolsOf(watchlists, inp'[2]))
    THEN /\ ~result'.returned
         /\ watchlists' = watchlists
         /\ config_file' = config_file
    ELSE /\ result'.returned
         /\ DOMAIN watchlists' = DOMAIN watchlists \cup {inp'[2]}
         /\ watchlists'[inp'[2]]
               = Append(SymbolsOf(watchlists, inp'[2]), Strip(Upper(inp'[1])))
         /\ \A n \in DOMAIN watchlists : n # inp'[2] => watchlists'[n] = watchlists[n]

\* No list holds a symbol twice, and every entry is upper-case and stripped.
NoDuplicates ==
    \A n \in DOMAIN watchlists :
        /\ \A i \in 1..Len(watchlists[n]), j \in 1..Len(watchlists[n]) :
              watchlists[n][i] = watchlists[n][j] => i = j
        /\ \A i \in 1..Len(watchlists[n]) :
              watchlists[n][i] = Strip(Upper(watchlists[n][i]))

\* C25: add_symbol returns False and changes neither list nor file when the
\* upper-cased, stripped symbol is already in the list, and otherwise
\* appends it once and returns True; so no list ever holds a symbol twice,
\* whatever the case it was typed in.
C25_AddIsNoOpOnDuplicates ==
    /\ [][WatchlistStep("add_symbol") => AddSymbolStep]_vars
    /\ []NoDuplicates

\* "akbnk" was added to a list that held AKBNK: nothing changed.
C25_Witness ==
    /\ WatchlistReturned("add_symbol")
    /\ inp[1] = <<"akbnk">>
    /\ ~result.returned
    /\ inp[2] \in DOMAIN watchlists
    /\ watchlists[inp[2]] = <<<<"THYAO">>, <<"AKBNK">>>>

\* C26: the list "default" exists after every sequence of add_symbol,
\* remove_symbol, create_list, delete_list and rename_list.
C26_DefaultListKept == <<"default">> \in DOMAIN watchlists

\* C27: when a mutating method has returned, a Watchlist constructed from
\* watchlists.json holds the lists the manager holds in memory.
C27_FileEqualsMemory ==
    (pc = "done" /\ last.op \in {"add_symbol", "remove_symbol", "create_list",
                                  "delete_list", "rename_list"})
        => load(config_file) = watchlists

-----------------------------------------------------------------------------
(* Further properties of the retry wrapper (SpecRetry)                     *)

\* Attempt i is answered by a 2xx response whose body parses.
Succeeds(i) ==
    /\ inp[i].kind = "http"
    /\ inp[i].status >= 200 /\ inp[i].status < 300
    /\ inp[i].valid_json

\* C28: a wrapped call invokes the request at most 3 times, stops at the
\* first attempt that succeeds and returns the result of that attempt, and
\* sleeps between two attempts only: one sleep less than attempts, 1.5^0
\* seconds after the first attempt and 1.5^1 after the second, none after
\* the last attempt or after a success.
C28_RetryBoundsAndBackoff ==
    Called =>
        /\ ret.calls \in 1..3
        /\ Len(ret.sleeps) = ret.calls - 1
        /\ Len(ret.sleeps) >= 1 => ret.sleeps[1] = <<1, 1>>
        /\ Len(ret.sleeps) >= 2 => ret.sleeps[2] = <<3, 2>>
        /\ \A i \in 1..(ret.calls - 1) : ~Succeeds(i)
        /\ ret.kind = "return" <=> Succeeds(ret.calls)
        /\ ret.kind = "return" => ret.value = inp[ret.calls].body

\* Two attempts fail with 503, the third succeeds: its body is returned
\* after sleeps of 1 and 1.5 seconds.
C28_Witness ==
    /\ Called
    /\ inp[1].status = 503
    /\ inp[2].status = 503
    /\ Succeeds(3)
    /\ inp[3].body.user = 1
    /\ ret.kind = "return"
    /\ ret.value.user = 1
    /\ ret.calls = 3
    /\ ret.sleeps = <<<<1, 1>>, <<3, 2>>>>

-----------------------------------------------------------------------------
(* Further properties of the session (Spec)                                *)

\* The tokens of the session, in memory and in the Token Store.
SessionTokens == <<access_token, refresh_token, token_expiry, keyring, token_file>>

\* An operation of the given names is called and ends.
OperationStep(names) == pc = "idle" /\ pc' = "done" /\ last'.op \in names

-----------------------------------------------------------------------------
(* Further properties of the broker authentication (SpecBroker)            *)

\* C30: handle_broker_operations enters broker_menu() only when
\* is_logged_in() is true and algolab_authenticated is true, already or
\* just set by an algolab_auth_flow that returned True; in every other case
\* it returns without entering the menu.
C30_BrokerMenuGated ==
    /\ [](pc = "broker_menu" => IsLoggedIn(access_token) /\ algolab_authenticated)
    /\ [][(pc = "idle" /\ last'.op = "handle_broker_operations")
            => (pc' = "broker_menu"
                  <=> /\ IsLoggedIn(access_token)
                      /\ \/ algolab_authenticated
                         \/ /\ result'.flow = "algolab_auth_flow"
                            /\ result'.returned = TRUE
                            /\ algolab_authenticated')]_vars

\* The menu was entered after a flow that found no broker session and
\* returned True with an OTP.
C30_Witness ==
    /\ pc = "broker_menu"
    /\ result.flow = "algolab_auth_flow"
    /\ result.returned = TRUE
    /\ ~result.algolab
    /\ result.otp # NoOtp
    /\ algolab_authenticated

====
